---------------------------- MODULE Spec2Model ----------------------------
(***************************************************************************)
(* A model of the in-memory search engine of the package `search`:         *)
(* the schema-directed flattener (mods/entries.py, mods/fields.py,         *)
(* mods/indexes.py), the filter-model compilation (mods/decorators.py),    *)
(* the boolean query engine and the search facade (mods/search_.py).       *)
(*                                                                         *)
(* Python values are tagged records; Python strings are TLA+ strings, on   *)
(* which TLC evaluates Len, Head, Tail, SubSeq and \o.  A Python dict is a *)
(* sequence of [key, val] pairs in insertion order with distinct keys.     *)
(***************************************************************************)
EXTENDS Integers, Sequences, FiniteSets, TLC

VARIABLES
    pc,         \* "call" before the operation runs, then the operation's name
    json_data,  \* the document passed in
    schema,     \* the Schema passed in
    filters,    \* the Filters instance passed in (NoFilters models None)
    fields,     \* search: the field searched
    query,      \* search / _build_query_predicate: the query string
    max_results,\* search: the cap
    args,       \* the other arguments of the call: exact, temp, term, e
    cls,        \* decorators: the class being decorated
    SCHEMA_REGISTRY, \* sql.py: root name -> Schema
    results,    \* unflat: the records passed in, as the caller holds them
    out         \* what the operation returned

vars == <<pc, json_data, schema, filters, fields, query, max_results,
          args, cls, SCHEMA_REGISTRY, results, out>>

---------------------------------------------------------------------------
(* Values *)

NULL == [k |-> "null"]
S(s) == [k |-> "str", s |-> s]
I(i) == [k |-> "int", i |-> i]
B(b) == [k |-> "bool", b |-> b]
L(l) == [k |-> "list", l |-> l]
M(m) == [k |-> "map", m |-> m]
KV(key, val) == [key |-> key, val |-> val]

\* isinstance(v, dict)
IsDict(v) == v.k = "map"

---------------------------------------------------------------------------
(* Python dict operations on a sequence of [key, val] pairs *)

DictKeys(d) == [i \in 1..Len(d) |-> d[i].key]

DictHas(d, key) == \E i \in 1..Len(d) : d[i].key = key

\* d.get(key, dflt)
DictGet(d, key, dflt) ==
    IF DictHas(d, key)
    THEN d[CHOOSE i \in 1..Len(d) : d[i].key = key].val
    ELSE dflt

\* d[key] = val: an existing key keeps its position, a new one is appended
DictSet(d, key, val) ==
    IF DictHas(d, key)
    THEN [i \in 1..Len(d) |-> IF d[i].key = key THEN KV(key, val) ELSE d[i]]
    ELSE Append(d, KV(key, val))

---------------------------------------------------------------------------
(* Python string operations *)

Upper == "ABCDEFGHIJKLMNOPQRSTUVWXYZ"
Lower == "abcdefghijklmnopqrstuvwxyz"
Digits == "0123456789"
Whitespace == {" ", "\t", "\n", "\r"}

CharAt(s, i) == SubSeq(s, i, i)

UpperChars == {CharAt(Upper, i) : i \in 1..Len(Upper)}
LowerOf == [c \in UpperChars |->
              CharAt(Lower, CHOOSE i \in 1..Len(Upper) : CharAt(Upper, i) = c)]

\* one character, case-folded
LowerChar(c) == IF c \in UpperChars THEN LowerOf[c] ELSE c

\* str.lower()
RECURSIVE pyLower(_)
pyLower(s) == IF s = "" THEN "" ELSE LowerChar(Head(s)) \o pyLower(Tail(s))

\* str.lstrip() and str.rstrip()
RECURSIVE pyLstrip(_)
pyLstrip(s) == IF s # "" /\ Head(s) \in Whitespace THEN pyLstrip(Tail(s)) ELSE s
RECURSIVE pyRstrip(_)
pyRstrip(s) ==
    IF s # "" /\ CharAt(s, Len(s)) \in Whitespace
    THEN pyRstrip(SubSeq(s, 1, Len(s) - 1)) ELSE s

\* str.strip()
pyStrip(s) == pyRstrip(pyLstrip(s))

\* str(n) of an integer
RECURSIVE NatStr(_)
NatStr(n) ==
    IF n < 10 THEN CharAt(Digits, n + 1)
    ELSE NatStr(n \div 10) \o CharAt(Digits, (n % 10) + 1)

\* str(x) of a scalar; None, lists and dicts are not passed to it in this
\* model (the CASE has no OTHER arm on purpose)
pyStr(v) ==
    CASE v.k = "str"  -> v.s
      [] v.k = "int"  -> IF v.i < 0 THEN "-" \o NatStr(-v.i) ELSE NatStr(v.i)
      [] v.k = "bool" -> IF v.b THEN "True" ELSE "False"
      [] v.k = "null" -> "None"

\* "." .join(path)
RECURSIVE DotJoin(_)
DotJoin(path) ==
    IF Len(path) = 0 THEN ""
    ELSE IF Len(path) = 1 THEN path[1]
    ELSE path[1] \o "." \o DotJoin(Tail(path))

---------------------------------------------------------------------------
(* mods/fields.py *)

\* A Fields model class is a sequence of attributes
\*   [name, default, sub]  with sub = <<>> for a leaf and the attributes of
\* the nested Fields model for a group.
Leaf(name, default) == [name |-> name, default |-> default, group |-> FALSE, sub |-> <<>>]
Group(name, sub) == [name |-> name, default |-> NULL, group |-> TRUE, sub |-> sub]

\* _field_specs(fields_model_cls, prefix, result): the dict
\*   field_name -> {path, default}   (the "type" entry is not modelled)
RECURSIVE _field_specs(_, _, _)
_field_specs(attrs, prefix, result) ==
    IF attrs = <<>> THEN result
    ELSE LET a    == Head(attrs)
             path == Append(prefix, a.name)
             r1   == IF a.group
                     THEN _field_specs(a.sub, path, result)
                     ELSE DictSet(result, a.name,
                                  [path |-> path, default |-> a.default])
         IN  _field_specs(Tail(attrs), prefix, r1)

---------------------------------------------------------------------------
(* mods/decorators.py *)

\* flat_name.split(".")[-1]
RECURSIVE LastSegment(_)
LastSegment(s) ==
    IF \E i \in 1..Len(s) : CharAt(s, i) = "."
    THEN LastSegment(SubSeq(s, (CHOOSE i \in 1..Len(s) : CharAt(s, i) = ".") + 1, Len(s)))
    ELSE s

\* filters(schema=...).decorator(cls): the compiled filter model for the
\* annotated attribute names, or the TypeError raised.  The annotation types
\* are not modelled: every attribute is taken to be declared with the type
\* of the index or field it names.
filters_decorator(sch, names) ==
    LET index_attr  == {sch.indexes[i] : i \in 1..Len(sch.indexes)}
        flat        == DictKeys(_field_specs(sch.fields, <<>>, <<>>))
        flat_names  == {flat[i] : i \in 1..Len(flat)}
        cands(short) == {f \in flat_names : LastSegment(f) = short}
        ambiguous(n) == Cardinality(cands(n)) > 1
        unique(n)    == Cardinality(cands(n)) = 1
        bad(n) == /\ n \notin index_attr
                  /\ n \notin flat_names
                  /\ (ambiguous(n) \/ ~unique(n))
        bound(n) == IF n \in flat_names THEN n ELSE CHOOSE f \in cands(n) : TRUE
        RECURSIVE map(_, _)
        map(i, acc) ==
            IF i > Len(names) THEN acc
            ELSE IF names[i] \in index_attr THEN map(i + 1, acc)
            ELSE map(i + 1, DictSet(acc, names[i], bound(names[i])))
    IN  IF \E i \in 1..Len(names) : bad(names[i])
        THEN [ok |-> FALSE, err |-> "TypeError"]
        ELSE [ok |-> TRUE, attrs |-> names, field_name_map |-> map(1, <<>>)]

\* filters_model(**filters_kwargs): an instance of a compiled filter model;
\* vals holds one value per declared attribute
FiltersInstance(model, vals) ==
    [none |-> FALSE, attrs |-> model.attrs, vals |-> vals,
     field_name_map |-> model.field_name_map]

\* A class handed to a decorator:
\*   [base, annotations, dict]  with base the model it extends,
\* annotations the annotated attribute names in order and dict the class
\* attributes that were assigned (the defaults).
Class(base, annotations, dict) ==
    [kind |-> "class", base |-> base, annotations |-> annotations, dict |-> dict]

TypeError(msg) == [ok |-> FALSE, err |-> msg]

\* helper._ensure_no_defaults that lets every class through
_ensure_no_defaults_off(c) == TRUE

\* helper._ensure_no_defaults(cls, kind): TRUE when nothing is raised
_ensure_no_defaults(c) ==
    \A i \in 1..Len(c.annotations) : ~DictHas(c.dict, c.annotations[i])

\* helper._ensure_extends(cls, base, kind): TRUE when nothing is raised
_ensure_extends(c, base) == c.base = base

\* decorators.indexes.wrap(cls) and decorators.fields.wrap(cls): the model
\* with its marker, or the TypeError raised
indexes_wrap(c) ==
    IF ~_ensure_extends(c, "Indexes") THEN TypeError("must extend")
    ELSE IF ~_ensure_no_defaults(c) THEN TypeError("cannot define a default value")
    ELSE [ok |-> TRUE, is_indexes |-> TRUE, attrs |-> c.annotations, defaults |-> c.dict]
fields_wrap(c) ==
    IF ~_ensure_extends(c, "Fields") THEN TypeError("must extend")
    ELSE IF ~_ensure_no_defaults(c) THEN TypeError("cannot define a default value")
    ELSE [ok |-> TRUE, is_fields |-> TRUE, attrs |-> c.annotations, defaults |-> c.dict]

\* decorators.filters(schema=...).decorator(cls): the compiled filter model,
\* which keeps the attributes assigned in the class, or the TypeError
decorator(sch, c) ==
    LET m == filters_decorator(sch, c.annotations)
    IN  IF ~_ensure_extends(c, "Filters") THEN TypeError("must extend")
        ELSE IF ~m.ok THEN m
        ELSE [ok |-> TRUE, is_filters |-> TRUE, attrs |-> m.attrs,
              field_name_map |-> m.field_name_map, defaults |-> c.dict]

---------------------------------------------------------------------------
(* mods/indexes.py *)

\* _index_specs(schema): the ordered index specs; an Indexes model cannot
\* declare defaults (decorators.indexes), so its attribute value is None
_index_specs(sch) ==
    [i \in 1..Len(sch.indexes) |-> [name |-> sch.indexes[i], default |-> NULL]]

NoFilters == [none |-> TRUE, attrs |-> <<>>, vals |-> <<>>, field_name_map |-> <<>>]

\* getattr(filters, name, None) on a Filters instance
FilterAttr(flt, name) == DictGet(flt.vals, name, NULL)

\* hasattr(filters, name)
FilterHas(flt, name) == DictHas(flt.vals, name)

\* _index_filters(schema, filters): {index_name: value} for non-None values
RECURSIVE IndexFiltersFrom(_, _, _)
IndexFiltersFrom(specs, flt, acc) ==
    IF specs = <<>> THEN acc
    ELSE LET name == Head(specs).name
             base == Head(specs).default
             val  == IF ~flt.none /\ FilterHas(flt, name)
                     THEN FilterAttr(flt, name) ELSE base
         IN  IndexFiltersFrom(Tail(specs), flt,
                 IF val # NULL THEN DictSet(acc, name, val) ELSE acc)

_index_filters(sch, flt) == IndexFiltersFrom(_index_specs(sch), flt, <<>>)

---------------------------------------------------------------------------
(* mods/entries.py *)

\* _get_in without its test `if cur is None`
RECURSIVE _get_in_keeps_null(_, _, _)
_get_in_keeps_null(cur, path, default) ==
    IF path = <<>> THEN cur
    ELSE IF ~IsDict(cur) THEN default
    ELSE IF ~DictHas(cur.m, Head(path)) THEN default
    ELSE _get_in_keeps_null(DictGet(cur.m, Head(path), NULL), Tail(path), default)

\* _get_in(entity, path, default)
RECURSIVE _get_in(_, _, _)
_get_in(cur, path, default) ==
    IF path = <<>> THEN cur
    ELSE IF ~IsDict(cur) THEN default
    ELSE IF ~DictHas(cur.m, Head(path)) THEN default
    ELSE LET nxt == DictGet(cur.m, Head(path), NULL)
         IN  IF nxt = NULL THEN default
             ELSE _get_in(nxt, Tail(path), default)

\* _iter._recurse(node, depth, acc): the sequence of (acc, node) pairs
\* yielded (the parameter annotations of the code are not modelled)
RECURSIVE _recurse(_, _, _, _, _)
RECURSIVE RecurseItems(_, _, _, _, _)
RECURSIVE RecurseItems_raw(_, _, _, _, _)
_recurse(node, depth, acc, index_specs, index_filters) ==
    IF depth = Len(index_specs)
    THEN IF IsDict(node) THEN <<[acc |-> acc, node |-> node]>> ELSE <<>>
    ELSE IF ~IsDict(node) THEN <<>>
    ELSE RecurseItems(node.m, depth, acc, index_specs, index_filters)

\* RecurseItems comparing the key with the filter value itself, not with
\* its string form
RecurseItems_raw(items, depth, acc, index_specs, index_filters) ==
    IF items = <<>> THEN <<>>
    ELSE LET iname == index_specs[depth + 1].name
             fval  == DictGet(index_filters, iname, NULL)
             key   == Head(items).key
             here  == IF fval # NULL /\ S(key) # fval
                      THEN <<>>
                      ELSE _recurse(Head(items).val, depth + 1,
                                    DictSet(acc, iname, S(key)),
                                    index_specs, index_filters)
         IN  here \o RecurseItems_raw(Tail(items), depth, acc, index_specs, index_filters)

\* the loop `for key, child in node.items()` of _recurse
RecurseItems(items, depth, acc, index_specs, index_filters) ==
    IF items = <<>> THEN <<>>
    ELSE LET iname == index_specs[depth + 1].name
             fval  == DictGet(index_filters, iname, NULL)
             key   == Head(items).key
             here  == IF fval # NULL /\ pyStr(S(key)) # pyStr(fval)
                      THEN <<>>
                      ELSE _recurse(Head(items).val, depth + 1,
                                    DictSet(acc, iname, S(key)),
                                    index_specs, index_filters)
         IN  here \o RecurseItems(Tail(items), depth, acc, index_specs, index_filters)

\* _iter(root, index_specs, index_filters)
_iter(root, index_specs, index_filters) ==
    IF index_specs = <<>> THEN <<[acc |-> <<>>, node |-> root]>>
    ELSE _recurse(root, 0, <<>>, index_specs, index_filters)

\* the loop `for fname, spec in field_specs.items()` of _all_entries
RECURSIVE RecordFields(_, _, _)
RecordFields(record, entity, field_specs) ==
    IF field_specs = <<>> THEN record
    ELSE LET fname == Head(field_specs).key
             spec  == Head(field_specs).val
         IN  RecordFields(DictSet(record, fname, _get_in(entity, spec.path, spec.default)),
                          entity, Tail(field_specs))

\* the body of the loop over _iter's pairs in _all_entries
RECURSIVE EntriesOf(_, _)
EntriesOf(pairs, field_specs) ==
    IF pairs = <<>> THEN <<>>
    ELSE LET p == Head(pairs)
         IN  (IF ~IsDict(p.node) THEN <<>>
              ELSE <<DictSet(RecordFields(p.acc, p.node, field_specs),
                             "entity", p.node)>>)
             \o EntriesOf(Tail(pairs), field_specs)

\* _all_entries(schema, json_data, filters)
_all_entries(sch, data, flt) ==
    EntriesOf(_iter(data, _index_specs(sch), _index_filters(sch, flt)),
              _field_specs(sch.fields, <<>>, <<>>))

\* _norm without the case folding
_norm_nofold(x) == IF x = NULL THEN NULL ELSE S(pyStrip(pyStr(x)))

\* _apply_filters._norm
_norm(x) == IF x = NULL THEN NULL ELSE S(pyLower(pyStrip(pyStr(x))))

\* the list comprehension of _apply_filters
KeepEqual(entries, name, target) ==
    SelectSeq(entries, LAMBDA e : _norm(DictGet(e, name, NULL)) = target)

\* the loop `for name, meta in filter_attrs.items()` of _apply_filters
RECURSIVE ApplyAttrs(_, _, _, _)
ApplyAttrs(entries, attrs, index_names, flt) ==
    IF attrs = <<>> THEN entries
    ELSE LET name == Head(attrs)
             fval == FilterAttr(flt, name)
             e1   == IF name \in index_names THEN entries
                     ELSE IF fval = NULL THEN entries
                     ELSE KeepEqual(entries, name, _norm(fval))
         IN  ApplyAttrs(e1, Tail(attrs), index_names, flt)

\* _apply_filters(entries, schema, filters)
_apply_filters(entries, sch, flt) ==
    IF flt.none THEN entries
    ELSE ApplyAttrs(entries, flt.attrs,
                    {sch.indexes[i] : i \in 1..Len(sch.indexes)}, flt)

\* _filtered_entries(schema, json_data, filters)
_filtered_entries(sch, data, flt) ==
    _apply_filters(_all_entries(sch, data, flt), sch, flt)

---------------------------------------------------------------------------
(* mods/search_.py: the boolean query engine *)

StartsWith(s, p) == Len(s) >= Len(p) /\ SubSeq(s, 1, Len(p)) = p

\* the length of the longest prefix of s matching [^()\s]+
RECURSIVE RunLen(_)
RunLen(s) ==
    IF s = "" \/ Head(s) \in Whitespace \cup {"(", ")"} THEN 0
    ELSE 1 + RunLen(Tail(s))

\* TOKEN_RE.findall(q) with
\*   TOKEN_RE = \s*(\(|\)|AND|OR|NOT|[^()\s]+)\s*
\* the alternatives are tried in the order written
RECURSIVE TOKEN_RE_findall(_)
TOKEN_RE_findall(s) ==
    IF s = "" THEN <<>>
    ELSE IF Head(s) \in Whitespace THEN TOKEN_RE_findall(Tail(s))
    ELSE IF Head(s) = "(" THEN <<"(">> \o TOKEN_RE_findall(Tail(s))
    ELSE IF Head(s) = ")" THEN <<")">> \o TOKEN_RE_findall(Tail(s))
    ELSE IF StartsWith(s, "AND")
         THEN <<"AND">> \o TOKEN_RE_findall(SubSeq(s, 4, Len(s)))
    ELSE IF StartsWith(s, "OR")
         THEN <<"OR">> \o TOKEN_RE_findall(SubSeq(s, 3, Len(s)))
    ELSE IF StartsWith(s, "NOT")
         THEN <<"NOT">> \o TOKEN_RE_findall(SubSeq(s, 4, Len(s)))
    ELSE <<SubSeq(s, 1, RunLen(s))>>
         \o TOKEN_RE_findall(SubSeq(s, RunLen(s) + 1, Len(s)))

\* QUERY_RE.match(q): one or more groups, each holding one token
QUERY_RE_match(q) == \E i \in 1..Len(q) : CharAt(q, i) \notin Whitespace

\* _insert_implicit_and._is_term
_is_term(tok) == tok \notin {"AND", "OR", "NOT", "(", ")"}

\* _insert_implicit_and that inserts nothing before NOT
_insert_implicit_and_noNOT(tokens) ==
    LET RECURSIVE loop(_, _)
        loop(i, new_tokens) ==
            IF i > Len(tokens) THEN new_tokens
            ELSE LET tok == tokens[i]
                     ins == /\ i > 1
                            /\ (_is_term(tokens[i - 1]) \/ tokens[i - 1] = ")")
                            /\ (_is_term(tok) \/ tok = "(")
                 IN  loop(i + 1,
                          (IF ins THEN Append(new_tokens, "AND") ELSE new_tokens)
                          \o <<tok>>)
    IN  loop(1, <<>>)

\* _insert_implicit_and(tokens)
_insert_implicit_and(tokens) ==
    LET RECURSIVE loop(_, _)
        loop(i, new_tokens) ==
            IF i > Len(tokens) THEN new_tokens
            ELSE LET tok == tokens[i]
                     ins == /\ i > 1
                            /\ (_is_term(tokens[i - 1]) \/ tokens[i - 1] = ")")
                            /\ (_is_term(tok) \/ tok \in {"(", "NOT"})
                 IN  loop(i + 1,
                          (IF ins THEN Append(new_tokens, "AND") ELSE new_tokens)
                          \o <<tok>>)
    IN  loop(1, <<>>)

\* _QueryParser._peek: None is modelled by the record NoTok
NoTok == [none |-> TRUE]
Tok(t) == [none |-> FALSE, t |-> t]
_peek(tokens, pos) == IF pos >= Len(tokens) THEN NoTok ELSE Tok(tokens[pos + 1])

\* What a parse method returns: a compiled predicate (as a syntax tree: the
\* closures of the code, defunctionalised) and the new position, or the
\* ValueError raised.
Ok(ast, pos) == [ok |-> TRUE, ast |-> ast, pos |-> pos]
Raise(msg, pos) == [ok |-> FALSE, err |-> msg, pos |-> pos]

TermNode(t) == [op |-> "term", t |-> t]
NotNode(a)  == [op |-> "not", a |-> a]
AndNode(l, r) == [op |-> "and", l |-> l, r |-> r]
OrNode(l, r)  == [op |-> "or", l |-> l, r |-> r]
FalseNode == [op |-> "false"]

RECURSIVE _parse_expr(_, _)
RECURSIVE ExprLoop(_, _, _)
RECURSIVE _parse_term(_, _)
RECURSIVE TermLoop(_, _, _)
RECURSIVE _parse_factor(_, _)
RECURSIVE _parse_primary(_, _)

\* _QueryParser._parse_expr:  expr := term (OR term)*
_parse_expr(tokens, pos) ==
    LET left == _parse_term(tokens, pos)
    IN  IF ~left.ok THEN left ELSE ExprLoop(tokens, left.ast, left.pos)

\* the loop `while self._peek() == "OR"` of _parse_expr
ExprLoop(tokens, left, pos) ==
    IF _peek(tokens, pos) = Tok("OR")
    THEN LET right == _parse_term(tokens, pos + 1)
         IN  IF ~right.ok THEN right
             ELSE ExprLoop(tokens, OrNode(left, right.ast), right.pos)
    ELSE Ok(left, pos)

\* _QueryParser._parse_term:  term := factor (AND factor)*
_parse_term(tokens, pos) ==
    LET left == _parse_factor(tokens, pos)
    IN  IF ~left.ok THEN left ELSE TermLoop(tokens, left.ast, left.pos)

\* the loop `while self._peek() == "AND"` of _parse_term
TermLoop(tokens, left, pos) ==
    IF _peek(tokens, pos) = Tok("AND")
    THEN LET right == _parse_factor(tokens, pos + 1)
         IN  IF ~right.ok THEN right
             ELSE TermLoop(tokens, AndNode(left, right.ast), right.pos)
    ELSE Ok(left, pos)

\* _parse_factor in which NOT takes a whole term
_parse_factor_loose(tokens, pos) ==
    IF _peek(tokens, pos) = Tok("NOT")
    THEN LET inner == _parse_term(tokens, pos + 1)
         IN  IF ~inner.ok THEN inner ELSE Ok(NotNode(inner.ast), inner.pos)
    ELSE _parse_primary(tokens, pos)

\* _QueryParser._parse_factor:  factor := NOT factor | primary
_parse_factor(tokens, pos) ==
    IF _peek(tokens, pos) = Tok("NOT")
    THEN LET inner == _parse_factor(tokens, pos + 1)
         IN  IF ~inner.ok THEN inner ELSE Ok(NotNode(inner.ast), inner.pos)
    ELSE _parse_primary(tokens, pos)

\* _QueryParser._parse_primary:  primary := TERM | '(' expr ')'
_parse_primary(tokens, pos) ==
    LET tok == _peek(tokens, pos)
    IN  IF tok = NoTok THEN Raise("Unexpected end of query inside expression", pos)
        ELSE IF tok.t = "("
        THEN LET expr == _parse_expr(tokens, pos + 1)
             IN  IF ~expr.ok THEN expr
                 ELSE IF _peek(tokens, expr.pos) # Tok(")")
                 THEN Raise("Missing closing parenthesis", expr.pos)
                 ELSE Ok(expr.ast, expr.pos + 1)
        ELSE IF tok.t \in {"AND", "OR", "NOT", ")"}
        THEN Raise("Unexpected token where a term was expected", pos)
        ELSE Ok(TermNode(tok.t), pos + 1)

\* parse that returns the first expression and ignores what follows it
parse_noTrailing(tokens) ==
    IF tokens = <<>> THEN Ok(FalseNode, 0)
    ELSE _parse_expr(tokens, 0)

\* _QueryParser.parse
parse(tokens) ==
    IF tokens = <<>> THEN Ok(FalseNode, 0)
    ELSE LET expr == _parse_expr(tokens, 0)
         IN  IF ~expr.ok THEN expr
             ELSE IF _peek(tokens, expr.pos) # NoTok
             THEN Raise("Unexpected token", expr.pos)
             ELSE expr

\* _build_query_predicate(query, ...)
_build_query_predicate(qry) ==
    LET q == pyStrip(qry)
    IN  IF q = "" THEN Ok(FalseNode, 0)
        ELSE IF ~QUERY_RE_match(q) THEN Raise("Invalid query syntax", 0)
        ELSE parse(_insert_implicit_and(TOKEN_RE_findall(q)))

\* `a in b` on two strings
IsSubstring(a, b) ==
    \E i \in 1..(Len(b) - Len(a) + 1) : SubSeq(b, i, i + Len(a) - 1) = a

\* _similarity_threshold without the clamp
_similarity_threshold_noclamp(temp) == 900 - 8 * temp

\* _similarity_threshold(temp), in thousandths: 0.9 - 0.8 * (t / 100.0) for
\* an integer temp is (900 - 8 * t) / 1000 (the rounding of the binary
\* floating-point operations is not modelled)
_similarity_threshold(temp) ==
    LET min100 == IF temp < 100 THEN temp ELSE 100
        t      == IF min100 > 0 THEN min100 ELSE 0
    IN  900 - 8 * t

\* _targets_match_term that compares without normalising the targets
_targets_match_term_raw(targets, term, exact) ==
    LET t == pyLower(pyStrip(term))
        kept == SelectSeq(targets, LAMBDA x : x # NULL)
    IN  IF t = "" THEN FALSE
        ELSE IF kept = <<>> THEN FALSE
        ELSE IF exact THEN \E i \in 1..Len(kept) : pyStr(kept[i]) = t
        ELSE \E i \in 1..Len(kept) : IsSubstring(t, pyStr(kept[i]))

\* _targets_match_term(targets, term, fuzzy=False, exact, temp)
_targets_match_term(targets, term, exact) ==
    LET t == pyLower(pyStrip(term))
        norm_targets == [i \in 1..Len(SelectSeq(targets, LAMBDA x : x # NULL)) |->
                           pyLower(pyStrip(pyStr(SelectSeq(targets, LAMBDA x : x # NULL)[i])))]
    IN  IF t = "" THEN FALSE
        ELSE IF norm_targets = <<>> THEN FALSE
        ELSE IF exact THEN \E i \in 1..Len(norm_targets) : norm_targets[i] = t
        ELSE \E i \in 1..Len(norm_targets) : IsSubstring(t, norm_targets[i])

\* _get_targets_auto(e, field)
_get_targets_auto(e, field) ==
    LET val == DictGet(e, field, NULL)
    IN  IF val = NULL THEN <<>>
        ELSE IF val.k = "list" THEN val.l
        ELSE <<val>>

\* the predicate compiled by the parser, applied to an entry
RECURSIVE predicate(_, _, _, _)
predicate(ast, e, field, exact) ==
    CASE ast.op = "false" -> FALSE
      [] ast.op = "term"  -> _targets_match_term(_get_targets_auto(e, field), ast.t, exact)
      [] ast.op = "not"   -> ~predicate(ast.a, e, field, exact)
      [] ast.op = "and"   -> predicate(ast.l, e, field, exact) /\ predicate(ast.r, e, field, exact)
      [] ast.op = "or"    -> predicate(ast.l, e, field, exact) \/ predicate(ast.r, e, field, exact)

\* _reshape_entry(entry, schema)
_reshape_entry(entry, sch) ==
    LET index_names == {sch.indexes[i] : i \in 1..Len(sch.indexes)}
    IN  [root    |-> sch.root,
         indexes |-> SelectSeq(entry, LAMBDA kv : kv.key \in index_names),
         fields  |-> SelectSeq(entry, LAMBDA kv : kv.key \notin index_names)]

\* MatchLoop putting each match in front of the earlier ones
RECURSIVE MatchLoop_prepend(_, _, _, _, _, _)
MatchLoop_prepend(entries, matched, ast, field, exact, maxr) ==
    IF entries = <<>> THEN matched
    ELSE IF predicate(ast, Head(entries), field, exact)
    THEN LET m1 == <<Head(entries)>> \o matched
         IN  IF Len(m1) >= maxr THEN m1
             ELSE MatchLoop_prepend(Tail(entries), m1, ast, field, exact, maxr)
    ELSE MatchLoop_prepend(Tail(entries), matched, ast, field, exact, maxr)

\* the loop `for e in entries` of search
RECURSIVE MatchLoop(_, _, _, _, _, _)
MatchLoop(entries, matched, ast, field, exact, maxr) ==
    IF entries = <<>> THEN matched
    ELSE IF predicate(ast, Head(entries), field, exact)
    THEN LET m1 == Append(matched, Head(entries))
         IN  IF Len(m1) >= maxr THEN m1
             ELSE MatchLoop(Tail(entries), m1, ast, field, exact, maxr)
    ELSE MatchLoop(Tail(entries), matched, ast, field, exact, maxr)

\* the instance of the NullFilters model search declares when it is given
\* no filter model
NullFilters(sch) == FiltersInstance(filters_decorator(sch, <<>>), <<>>)

\* search(json_data, fields, query, schema, filters_model, fuzzy=False,
\*        max_results, exact, **filters_kwargs) for one field name and a
\* query string; flt is the instance filters_model(**filters_kwargs), or
\* NoFilters when filters_model is None
search(data, field, qry, sch, flt, maxr, exact) ==
    LET query_str == pyStrip(qry)
        inst      == IF flt.none THEN NullFilters(sch) ELSE flt
    IN  IF query_str = "" THEN [ok |-> TRUE, results |-> <<>>]
        ELSE LET entries == _filtered_entries(sch, data, inst)
                 pred    == _build_query_predicate(query_str)
             IN  IF ~pred.ok THEN [ok |-> FALSE, err |-> pred.err]
                 ELSE LET matched == MatchLoop(entries, <<>>, pred.ast, field, exact, maxr)
                      IN  [ok |-> TRUE,
                           results |-> [i \in 1..Len(matched) |->
                                           _reshape_entry(matched[i], sch)]]

---------------------------------------------------------------------------
(* mods/sql.py *)

\* register_schema(schema): SCHEMA_REGISTRY[root] = schema
register_schema(registry, sch) == DictSet(registry, sch.root, sch)

DigitChars == {CharAt(Digits, i) : i \in 1..Len(Digits)}
LetterChars == UpperChars \cup {CharAt(Lower, i) : i \in 1..Len(Lower)}

\* the regular expression classes [A-Za-z_], [A-Za-z0-9_.] and \w
IdentStart == LetterChars \cup {"_"}
IdentChars == LetterChars \cup DigitChars \cup {"_", "."}
WordChars == LetterChars \cup DigitChars \cup {"_"}

\* the length of the longest prefix of s made of characters of cs
RECURSIVE SpanLen(_, _)
SpanLen(s, cs) == IF s # "" /\ Head(s) \in cs THEN 1 + SpanLen(Tail(s), cs) ELSE 0

\* s starts with p, ignoring case (p in lower case)
StartsWithCI(s, p) == Len(s) >= Len(p) /\ pyLower(SubSeq(s, 1, Len(p))) = p

\* s[n:]
Drop(s, n) == SubSeq(s, n + 1, Len(s))

\* int(s) of a string of digits
RECURSIVE DigitsInt(_, _)
DigitsInt(s, acc) ==
    IF s = "" THEN acc
    ELSE DigitsInt(Tail(s),
                   10 * acc + ((CHOOSE i \in 1..10 : CharAt(Digits, i) = Head(s)) - 1))

\* a float literal: sign, integer part, digits after the point
F(neg, i, frac) == [k |-> "float", neg |-> neg, i |-> i, frac |-> frac]

\* _LIT_INT_RE.fullmatch(s) and _LIT_FLOAT_RE.fullmatch(s)
_LIT_INT_RE_fullmatch(s) ==
    LET body == IF StartsWith(s, "-") THEN Drop(s, 1) ELSE s
    IN  body # "" /\ SpanLen(body, DigitChars) = Len(body)
_LIT_FLOAT_RE_fullmatch(s) ==
    LET body == IF StartsWith(s, "-") THEN Drop(s, 1) ELSE s
        n    == SpanLen(body, DigitChars)
    IN  /\ n > 0
        /\ Len(body) > n
        /\ CharAt(body, n + 1) = "."
        /\ SpanLen(Drop(body, n + 1), DigitChars) = Len(body) - n - 1

\* _parse_literal(s)
_parse_literal(s0) ==
    LET s == pyStrip(s0)
        quoted == /\ Len(s) >= 2
                  /\ \/ CharAt(s, 1) = "'" /\ CharAt(s, Len(s)) = "'"
                     \/ CharAt(s, 1) = "\"" /\ CharAt(s, Len(s)) = "\""
        neg  == StartsWith(s, "-")
        body == IF neg THEN Drop(s, 1) ELSE s
        n    == SpanLen(body, DigitChars)
    IN  IF s = "" THEN S(s)
        ELSE IF quoted THEN S(SubSeq(s, 2, Len(s) - 1))
        ELSE IF pyLower(s) = "true" THEN B(TRUE)
        ELSE IF pyLower(s) = "false" THEN B(FALSE)
        ELSE IF _LIT_INT_RE_fullmatch(s)
        THEN I(IF neg THEN 0 - DigitsInt(body, 0) ELSE DigitsInt(body, 0))
        ELSE IF _LIT_FLOAT_RE_fullmatch(s)
        THEN F(neg, DigitsInt(SubSeq(body, 1, n), 0), Drop(body, n + 1))
        ELSE S(s)

\* the length of the quoted string s starts with, 0 if there is none:
\*   q (?:[^q\\]|\\.)* q
RECURSIVE QuotedEnd(_, _, _)
QuotedEnd(s, q, i) ==
    IF i > Len(s) THEN 0
    ELSE IF CharAt(s, i) = q THEN i
    ELSE IF CharAt(s, i) = "\\"
    THEN (IF i + 1 > Len(s) \/ CharAt(s, i + 1) = "\n" THEN 0
          ELSE QuotedEnd(s, q, i + 2))
    ELSE QuotedEnd(s, q, i + 1)
QuotedLen(s, q) == IF StartsWith(s, q) THEN QuotedEnd(s, q, 2) ELSE 0

\* the length of the number s starts with: -?\d+\.\d+ when frac, else -?\d+
NumberLen(s, frac) ==
    LET sign == IF StartsWith(s, "-") THEN 1 ELSE 0
        n    == SpanLen(Drop(s, sign), DigitChars)
        m    == IF Len(s) > sign + n /\ CharAt(s, sign + n + 1) = "."
                THEN SpanLen(Drop(s, sign + n + 1), DigitChars) ELSE 0
    IN  IF n = 0 THEN 0
        ELSE IF frac THEN (IF m > 0 THEN sign + n + 1 + m ELSE 0)
        ELSE sign + n

\* the length of the token the group of _WHERE_TOKEN_RE matches at the
\* start of s, trying the alternatives in their order; 0 if none matches
WhereTokenLen(s) ==
    IF s = "" THEN 0
    ELSE IF Head(s) \in {"(", ")"} THEN 1
    ELSE IF StartsWithCI(s, "and") THEN 3
    ELSE IF StartsWithCI(s, "or") THEN 2
    ELSE IF Head(s) = "=" THEN 1
    ELSE IF QuotedLen(s, "'") > 0 THEN QuotedLen(s, "'")
    ELSE IF QuotedLen(s, "\"") > 0 THEN QuotedLen(s, "\"")
    ELSE IF NumberLen(s, TRUE) > 0 THEN NumberLen(s, TRUE)
    ELSE IF NumberLen(s, FALSE) > 0 THEN NumberLen(s, FALSE)
    ELSE IF Head(s) \in IdentStart THEN 1 + SpanLen(Tail(s), IdentChars)
    ELSE 0

\* [m.group(1) for m in _WHERE_TOKEN_RE.finditer(where)]: a position where
\* nothing matches is passed over
RECURSIVE _WHERE_TOKEN_RE_finditer(_)
_WHERE_TOKEN_RE_finditer(s) ==
    IF s = "" THEN <<>>
    ELSE LET rest == pyLstrip(s)
             n    == WhereTokenLen(rest)
         IN  IF n > 0
             THEN <<SubSeq(rest, 1, n)>> \o _WHERE_TOKEN_RE_finditer(Drop(rest, n))
             ELSE _WHERE_TOKEN_RE_finditer(Tail(s))

\* _tokenize_where(where): the tokens, or the ValueError raised
_tokenize_where(where0) ==
    LET where == pyStrip(where0)
        tokens == _WHERE_TOKEN_RE_finditer(where)
    IN  IF where = "" THEN [ok |-> TRUE, tokens |-> <<>>]
        ELSE IF tokens = <<>> THEN [ok |-> FALSE, err |-> "Invalid WHERE clause"]
        ELSE [ok |-> TRUE, tokens |-> tokens]

\* str.upper() is compared through str.lower() of both sides
UpperEq(tok, word) == pyLower(tok) = pyLower(word)

\* the predicates _WhereParser builds, as syntax trees
CondNode(fname, val) == [op |-> "cond", fname |-> fname, val |-> val]
TrueNode == [op |-> "true"]

\* ident.split(".", 1)[1]
AfterFirstDot(s) == Drop(s, CHOOSE i \in 1..Len(s) : CharAt(s, i) = "."
                                   /\ \A j \in 1..(i - 1) : CharAt(s, j) # ".")

RECURSIVE _WhereParser_parse_expr(_, _, _, _)
RECURSIVE WhereExprLoop(_, _, _, _)
RECURSIVE _WhereParser_parse_term(_, _, _, _)
RECURSIVE WhereTermLoop(_, _, _, _)
RECURSIVE _WhereParser_parse_factor(_, _, _, _)

\* _WhereParser._parse_condition:  condition := IDENT '=' LITERAL
_WhereParser_parse_condition(tokens, pos, index_names, primary_root) ==
    LET t1 == _peek(tokens, pos)
        t2 == _peek(tokens, pos + 1)
        t3 == _peek(tokens, pos + 2)
    IN  \* _consume_identifier
        IF t1 = NoTok THEN Raise("Unexpected end of WHERE clause (expected identifier)", pos)
        ELSE IF t1.t \in {"(", ")", "=", "AND", "OR"}
        THEN Raise("Expected identifier", pos)
        \* _consume("=")
        ELSE IF t2 = NoTok THEN Raise("Unexpected end of WHERE clause", pos + 1)
        ELSE IF ~UpperEq(t2.t, "=") THEN Raise("Expected '='", pos + 1)
        \* _consume_value_token
        ELSE IF t3 = NoTok THEN Raise("Unexpected end of WHERE clause (expected value)", pos + 2)
        ELSE IF pyLower(t3.t) \in {"and", "or", "(", ")", "="}
        THEN Raise("Expected value", pos + 2)
        ELSE LET value == _parse_literal(t3.t)
                 ident == IF primary_root # "" /\ StartsWith(t1.t, primary_root \o ".")
                          THEN Drop(t1.t, Len(primary_root) + 1)
                          ELSE t1.t
             IN  IF StartsWith(pyLower(ident), "indexes.")
                 THEN (IF AfterFirstDot(ident) \notin index_names
                       THEN Raise("Unknown index name", pos + 3)
                       ELSE Ok(CondNode(AfterFirstDot(ident), value), pos + 3))
                 ELSE Ok(CondNode(ident, value), pos + 3)

\* _parse_factor after the inner expression: self._consume(")")
WhereClose(tokens, expr) ==
    IF ~expr.ok THEN expr
    ELSE IF _peek(tokens, expr.pos) # Tok(")")
    THEN Raise("Missing closing ')' in WHERE clause", expr.pos)
    ELSE Ok(expr.ast, expr.pos + 1)

\* _WhereParser._parse_factor:  factor := '(' expr ')' | condition
_WhereParser_parse_factor(tokens, pos, index_names, primary_root) ==
    IF _peek(tokens, pos) = NoTok THEN Raise("Unexpected end of WHERE clause", pos)
    ELSE IF _peek(tokens, pos).t = "("
    THEN WhereClose(tokens,
                    _WhereParser_parse_expr(tokens, pos + 1, index_names, primary_root))
    ELSE _WhereParser_parse_condition(tokens, pos, index_names, primary_root)

\* lambda e: left_pred(e) and right(e), and its OR counterpart, of two
\* parse results; an exception raised on the right propagates
WhereAnd(left, right) ==
    IF ~right.ok THEN right ELSE Ok(AndNode(left.ast, right.ast), right.pos)
WhereOr(left, right) ==
    IF ~right.ok THEN right ELSE Ok(OrNode(left.ast, right.ast), right.pos)

\* _WhereParser._parse_term:  term := factor (AND factor)*
_WhereParser_parse_term(tokens, pos, index_names, primary_root) ==
    WhereTermLoop(tokens,
                  _WhereParser_parse_factor(tokens, pos, index_names, primary_root),
                  index_names, primary_root)

\* the loop `while True` of _parse_term, left the result so far
WhereTermLoop(tokens, left, index_names, primary_root) ==
    IF ~left.ok THEN left
    ELSE IF _peek(tokens, left.pos) # NoTok /\ UpperEq(_peek(tokens, left.pos).t, "AND")
    THEN WhereTermLoop(tokens,
             WhereAnd(left, _WhereParser_parse_factor(tokens, left.pos + 1,
                                                      index_names, primary_root)),
             index_names, primary_root)
    ELSE left

\* _WhereParser._parse_expr:  expr := term (OR term)*
_WhereParser_parse_expr(tokens, pos, index_names, primary_root) ==
    WhereExprLoop(tokens,
                  _WhereParser_parse_term(tokens, pos, index_names, primary_root),
                  index_names, primary_root)

\* the loop `while True` of _parse_expr, left the result so far
WhereExprLoop(tokens, left, index_names, primary_root) ==
    IF ~left.ok THEN left
    ELSE IF _peek(tokens, left.pos) # NoTok /\ UpperEq(_peek(tokens, left.pos).t, "OR")
    THEN WhereExprLoop(tokens,
             WhereOr(left, _WhereParser_parse_term(tokens, left.pos + 1,
                                                   index_names, primary_root)),
             index_names, primary_root)
    ELSE left

\* the expression returned whatever follows it
WhereEnd_noTrailing(tokens, expr) == expr

\* _WhereParser.parse after the expression: nothing may follow it
WhereEnd(tokens, expr) ==
    IF ~expr.ok THEN expr
    ELSE IF _peek(tokens, expr.pos) # NoTok
    THEN Raise("Unexpected token in WHERE clause", expr.pos)
    ELSE expr

\* _WhereParser.parse
_WhereParser_parse(tokens, index_names, primary_root) ==
    IF tokens = <<>> THEN Ok(TrueNode, 0)
    ELSE WhereEnd(tokens, _WhereParser_parse_expr(tokens, 0, index_names, primary_root))

\* _build_where_predicate(where, primary_schema, primary_root); where is
\* "" when the query has no WHERE (None and "" are both falsy)
_build_where_predicate(where, primary_schema, primary_root) ==
    IF where = "" THEN Ok(TrueNode, 0)
    ELSE LET toks == _tokenize_where(where)
         IN  IF ~toks.ok THEN Raise(toks.err, 0)
             ELSE _WhereParser_parse(toks.tokens,
                      {primary_schema.indexes[i] : i \in 1..Len(primary_schema.indexes)},
                      primary_root)

\* Python's == on two values: bool is an int, and a float equals the int
\* it denotes
NumValue(v) ==
    CASE v.k = "int"   -> [whole |-> TRUE, n |-> v.i]
      [] v.k = "bool"  -> [whole |-> TRUE, n |-> IF v.b THEN 1 ELSE 0]
      [] v.k = "float" -> [whole |-> SpanLen(v.frac, {"0"}) = Len(v.frac),
                           n |-> IF v.neg THEN 0 - v.i ELSE v.i,
                           frac |-> v.frac, neg |-> v.neg]
pyEq(a, b) ==
    IF a.k \in {"int", "bool", "float"} /\ b.k \in {"int", "bool", "float"}
    THEN IF NumValue(a).whole /\ NumValue(b).whole THEN NumValue(a).n = NumValue(b).n
         ELSE a.k = "float" /\ b.k = "float" /\ a = b
    ELSE a.k = b.k /\ a = b

\* the predicate built by _WhereParser, applied to an entry
RECURSIVE where_pred(_, _)
where_pred(ast, e) ==
    CASE ast.op = "true" -> TRUE
      [] ast.op = "cond" -> pyEq(DictGet(e, ast.fname, NULL), ast.val)
      [] ast.op = "and"  -> where_pred(ast.l, e) /\ where_pred(ast.r, e)
      [] ast.op = "or"   -> where_pred(ast.l, e) \/ where_pred(ast.r, e)

\* s.split(ch)
RECURSIVE Split(_, _)
Split(s, ch) ==
    IF \E i \in 1..Len(s) : CharAt(s, i) = ch
    THEN LET i == CHOOSE i \in 1..Len(s) :
                     CharAt(s, i) = ch /\ \A j \in 1..(i - 1) : CharAt(s, j) # ch
         IN  <<SubSeq(s, 1, i - 1)>> \o Split(Drop(s, i), ch)
    ELSE <<s>>

\* SCHEMA_REGISTRY.get(root): found is FALSE for None
RegistryGet(registry, root) ==
    IF DictHas(registry, root)
    THEN [found |-> TRUE, schema |-> DictGet(registry, root, NULL)]
    ELSE [found |-> FALSE]

\* _parse_from_root_spec(spec): (root, schema, index_names) or the error
_parse_from_root_spec(registry, spec) ==
    LET parts == Split(spec, ".")
        root  == parts[1]
        got   == RegistryGet(registry, root)
    IN  IF ~got.found THEN [ok |-> FALSE, err |-> "KeyError: No schema registered for root"]
        ELSE LET index_names == [i \in 1..Len(got.schema.indexes) |->
                                    _index_specs(got.schema)[i].name]
                 n == Len(parts) - 1
                 expected == SubSeq(index_names, 1, IF n < Len(index_names) THEN n
                                                    ELSE Len(index_names))
             IN  IF Len(parts) > 1 /\ Tail(parts) # expected
                 THEN [ok |-> FALSE, err |-> "FROM path indexes do not match schema indexes"]
                 ELSE [ok |-> TRUE, root |-> root, schema |-> got.schema,
                       index_names |-> index_names]

\* _parse_qualified_ident(ident, left_root, right_root, left_schema,
\*                        right_schema): {root, is_index, name} or the error
_parse_qualified_ident(ident, left_root, right_root, left_schema, right_schema) ==
    LET parts == Split(ident, ".")
        root  == parts[1]
        sch   == IF root = left_root THEN left_schema ELSE right_schema
        index_names == {_index_specs(sch)[i].name : i \in 1..Len(sch.indexes)}
        field_specs == _field_specs(sch.fields, <<>>, <<>>)
        name_rest == DotJoin(Tail(parts))
    IN  IF Len(parts) < 2
        THEN [ok |-> FALSE, err |-> "JOIN identifiers must be qualified with a root"]
        ELSE IF root # left_root /\ root # right_root
        THEN [ok |-> FALSE, err |-> "Unknown root in JOIN condition"]
        ELSE IF Len(parts) >= 3 /\ parts[2] = "indexes"
        THEN (IF parts[3] \notin index_names
              THEN [ok |-> FALSE, err |-> "Unknown index in JOIN condition"]
              ELSE [ok |-> TRUE, root |-> root, is_index |-> TRUE, name |-> parts[3]])
        ELSE IF Len(parts) = 2 /\ parts[2] \in index_names /\ ~DictHas(field_specs, name_rest)
        THEN [ok |-> TRUE, root |-> root, is_index |-> TRUE, name |-> parts[2]]
        ELSE IF ~DictHas(field_specs, name_rest)
        THEN [ok |-> FALSE, err |-> "Unknown field in JOIN condition"]
        ELSE [ok |-> TRUE, root |-> root, is_index |-> FALSE, name |-> name_rest]

\* re.split(r"\s+AND\s+", s, flags=re.IGNORECASE)
AndMatchLen(s) ==
    LET w     == SpanLen(s, Whitespace)
        after == Drop(s, w)
        w2    == SpanLen(Drop(after, 3), Whitespace)
    IN  IF w > 0 /\ StartsWithCI(after, "and") /\ w2 > 0 THEN w + 3 + w2 ELSE 0
RECURSIVE SplitAnd(_)
SplitAnd(s) ==
    IF \E i \in 1..Len(s) : AndMatchLen(Drop(s, i - 1)) > 0
    THEN LET i == CHOOSE i \in 1..Len(s) :
                     /\ AndMatchLen(Drop(s, i - 1)) > 0
                     /\ \A j \in 1..(i - 1) : AndMatchLen(Drop(s, j - 1)) = 0
         IN  <<SubSeq(s, 1, i - 1)>> \o SplitAnd(Drop(s, i - 1 + AndMatchLen(Drop(s, i - 1))))
    ELSE <<s>>

\* _JOIN_COND_RE.match(part): the two identifiers, or no match
IdentLen(s) == IF s # "" /\ Head(s) \in IdentStart THEN 1 + SpanLen(Tail(s), IdentChars) ELSE 0
_JOIN_COND_RE_match(part) ==
    LET a  == pyLstrip(part)
        n1 == IdentLen(a)
        b  == pyLstrip(Drop(a, n1))
        c  == pyLstrip(Drop(b, 1))
        n2 == IdentLen(c)
    IN  IF n1 > 0 /\ StartsWith(b, "=") /\ n2 > 0 /\ pyLstrip(Drop(c, n2)) = ""
        THEN [ok |-> TRUE, ident1 |-> SubSeq(a, 1, n1), ident2 |-> SubSeq(c, 1, n2)]
        ELSE [ok |-> FALSE]

\* the loop `for part in parts` of _parse_join_on
RECURSIVE JoinConditions(_, _, _, _, _, _)
JoinConditions(parts, conditions, left_root, right_root, left_schema, right_schema) ==
    IF parts = <<>> THEN [ok |-> TRUE, conditions |-> conditions]
    ELSE LET part == pyStrip(Head(parts))
             m    == _JOIN_COND_RE_match(part)
             side1 == _parse_qualified_ident(m.ident1, left_root, right_root,
                                             left_schema, right_schema)
             side2 == _parse_qualified_ident(m.ident2, left_root, right_root,
                                             left_schema, right_schema)
         IN  IF part = ""
             THEN JoinConditions(Tail(parts), conditions, left_root, right_root,
                                 left_schema, right_schema)
             ELSE IF ~m.ok THEN [ok |-> FALSE, err |-> "Invalid JOIN ON condition"]
             ELSE IF ~side1.ok THEN side1
             ELSE IF ~side2.ok THEN side2
             ELSE JoinConditions(Tail(parts), Append(conditions, <<side1, side2>>),
                                 left_root, right_root, left_schema, right_schema)

\* _parse_join_on(on_clause, left_root, right_root, left_schema, right_schema)
_parse_join_on(on_clause, left_root, right_root, left_schema, right_schema) ==
    IF on_clause = "" THEN [ok |-> FALSE, err |-> "JOIN ... ON clause is required"]
    ELSE LET r == JoinConditions(SplitAnd(on_clause), <<>>, left_root, right_root,
                                 left_schema, right_schema)
         IN  IF r.ok /\ r.conditions = <<>>
             THEN [ok |-> FALSE, err |-> "Empty JOIN ON clause"]
             ELSE r

\* Python's == on any two values of the document
pyEqAny(a, b) == IF a.k \in {"list", "map"} \/ b.k \in {"list", "map"}
                 THEN a.k = b.k /\ a = b
                 ELSE pyEq(a, b)

\* _build_join_predicate(conditions, left_root, right_root)(left_entry,
\*                                                          right_entry)
join_pred(conditions, left_root, left_entry, right_entry) ==
    LET value_for_side(side) ==
            DictGet(IF side.root = left_root THEN left_entry ELSE right_entry,
                    side.name, NULL)
    IN  \A i \in 1..Len(conditions) :
            pyEqAny(value_for_side(conditions[i][1]), value_for_side(conditions[i][2]))

\* _combine_join_entries(left_entry, right_entry, right_root, right_schema)
RECURSIVE CombineInto(_, _, _, _)
CombineInto(combined, right_entry, right_root, right_index_names) ==
    IF right_entry = <<>> THEN combined
    ELSE LET kv == Head(right_entry)
             key == IF kv.key \in right_index_names
                    THEN right_root \o ".indexes." \o kv.key
                    ELSE right_root \o "." \o kv.key
         IN  CombineInto(DictSet(combined, key, kv.val), Tail(right_entry),
                         right_root, right_index_names)
_combine_join_entries(left_entry, right_entry, right_root, right_schema) ==
    CombineInto(left_entry, right_entry, right_root,
                {_index_specs(right_schema)[i].name : i \in 1..Len(right_schema.indexes)})

\* \b at both ends of s[i .. i+n-1], a stretch that begins and ends with a
\* word character
Bounded(s, i, n) ==
    /\ (i = 1 \/ CharAt(s, i - 1) \notin WordChars)
    /\ (i + n > Len(s) \/ CharAt(s, i + n) \notin WordChars)

\* re.search(r"\bKW\b", s, flags=re.IGNORECASE): [found, start, end] with
\* s[start:end] the match (0-based, as in Python)
SearchWord(s, kw) ==
    LET hit(i) == StartsWithCI(Drop(s, i - 1), kw) /\ Bounded(s, i, Len(kw))
    IN  IF \E i \in 1..Len(s) : hit(i)
        THEN LET i == CHOOSE i \in 1..Len(s) : hit(i) /\ \A j \in 1..(i - 1) : ~hit(j)
             IN  [found |-> TRUE, start |-> i - 1, end |-> i - 1 + Len(kw)]
        ELSE [found |-> FALSE]

\* JoinMatchLen that knows the word JOIN only
JoinMatchLen_plain(s, i) ==
    LET t == Drop(s, i - 1)
    IN  IF StartsWithCI(t, "join") /\ (4 = Len(t) \/ CharAt(t, 5) \notin WordChars)
        THEN 4 ELSE 0

\* the length of the match of (INNER\s+JOIN|JOIN)\b at s[i-1:], 0 if none
JoinMatchLen(s, i) ==
    LET t  == Drop(s, i - 1)
        w  == SpanLen(Drop(t, 5), Whitespace)
        n1 == 5 + w + 4
    IN  IF StartsWithCI(t, "inner") /\ w > 0 /\ StartsWithCI(Drop(t, 5 + w), "join")
           /\ (n1 = Len(t) \/ CharAt(t, n1 + 1) \notin WordChars)
        THEN n1
        ELSE IF StartsWithCI(t, "join") /\ (4 = Len(t) \/ CharAt(t, 5) \notin WordChars)
        THEN 4
        ELSE 0

\* re.search(r"\b(INNER\s+JOIN|JOIN)\b", s, flags=re.IGNORECASE)
SearchJoin(s) ==
    LET hit(i) == (i = 1 \/ CharAt(s, i - 1) \notin WordChars) /\ JoinMatchLen(s, i) > 0
    IN  IF \E i \in 1..Len(s) : hit(i)
        THEN LET i == CHOOSE i \in 1..Len(s) : hit(i) /\ \A j \in 1..(i - 1) : ~hit(j)
             IN  [found |-> TRUE, start |-> i - 1, end |-> i - 1 + JoinMatchLen(s, i)]
        ELSE [found |-> FALSE]

\* _SQL_RE.match(query): the groups select and from_and_rest.  The lazy
\* select group ends before the first FROM that stands between blanks
\* and is followed by something; from_and_rest is what follows, less a
\* closing `;` and blanks
_SQL_RE_match(qry) ==
    LET q1    == pyLstrip(qry)
        w     == SpanLen(Drop(q1, 6), Whitespace)
        body  == Drop(q1, 6 + w)
        from(c) == /\ CharAt(body, c - 1) \in Whitespace
                   /\ StartsWithCI(Drop(body, c - 1), "from")
                   /\ Len(body) >= c + 5
                   /\ CharAt(body, c + 4) \in Whitespace
        cs    == {c \in 3..Len(body) : from(c)}
        c0    == CHOOSE c \in cs : \A d \in cs : c <= d
        R     == pyLstrip(Drop(body, c0 + 3))
        T     == pyRstrip(R)
        core  == IF Len(T) >= 2 /\ CharAt(T, Len(T)) = ";"
                 THEN SubSeq(T, 1, Len(T) - 1) ELSE T
    IN  IF ~StartsWithCI(q1, "select") \/ w = 0 \/ cs = {}
        THEN [ok |-> FALSE]
        ELSE [ok |-> TRUE, select |-> SubSeq(body, 1, c0 - 1), from_and_rest |-> core]

\* [f.strip() for f in select_part.split(",") if f.strip()]
StripAll(parts) ==
    LET stripped == [i \in 1..Len(parts) |-> pyStrip(parts[i])]
    IN  SelectSeq(stripped, LAMBDA f : f # "")

\* SelectInternal that keeps the names as written
SelectInternal_raw(select_raw, left_root) == select_raw

\* the loop `for name in select_raw` of sql: the internal names
SelectInternal(select_raw, left_root) ==
    [i \in 1..Len(select_raw) |->
        IF StartsWith(select_raw[i], left_root \o ".")
        THEN Drop(select_raw[i], Len(left_root) + 1)
        ELSE select_raw[i]]

\* {f: fields_dict.get(f) for f in select_internal}
RECURSIVE SelectedFields(_, _, _)
SelectedFields(select_internal, fields_dict, acc) ==
    IF select_internal = <<>> THEN acc
    ELSE SelectedFields(Tail(select_internal), fields_dict,
             DictSet(acc, Head(select_internal),
                     DictGet(fields_dict, Head(select_internal), NULL)))

\* the projection loop `for e in entries` of sql
Project(entries, left_schema, select_internal, star) ==
    [i \in 1..Len(entries) |->
        LET reshaped == _reshape_entry(entries[i], left_schema)
        IN  [root    |-> reshaped.root,
             indexes |-> reshaped.indexes,
             fields  |-> IF select_internal = star THEN reshaped.fields
                         ELSE SelectedFields(select_internal, reshaped.fields, <<>>)]]

\* the loops `for le in left_entries: for re in right_entries` of sql
RECURSIVE JoinLoop(_, _, _, _, _, _)
JoinLoop(left_entries, right_entries, i, conditions, left_root, right) ==
    IF i > Len(left_entries) * Len(right_entries) THEN <<>>
    ELSE LET le == left_entries[((i - 1) \div Len(right_entries)) + 1]
             re == right_entries[((i - 1) % Len(right_entries)) + 1]
         IN  (IF join_pred(conditions, left_root, le, re)
              THEN <<_combine_join_entries(le, re, right.root, right.schema)>>
              ELSE <<>>)
             \o JoinLoop(left_entries, right_entries, i + 1, conditions, left_root, right)

SqlError(msg) == [ok |-> FALSE, err |-> msg]

\* sql, execution and projection: the join loops, the WHERE filter and the
\* projection of the entries kept
sql_execute(select_internal, star, join_used, left, right, conditions, where, data) ==
    LET left_entries == _all_entries(left.schema, data, NoFilters)
        candidates == IF join_used
                      THEN JoinLoop(left_entries,
                                    _all_entries(right.schema, data, NoFilters), 1,
                                    conditions.conditions, left.root, right)
                      ELSE left_entries
        entries == SelectSeq(candidates, LAMBDA e : where_pred(where.ast, e))
    IN  IF join_used /\ ~conditions.ok THEN conditions
        ELSE IF ~where.ok THEN SqlError(where.err)
        ELSE [ok |-> TRUE,
              results |-> Project(entries, left.schema, select_internal, star)]

\* sql, the SELECT list: the names allowed, the star expansion and the
\* internal names of the list
sql_select(select_raw, where_part, on_clause, join_used, left, right, left_field_names, right_field_names, data) ==
    LET qualified(root, names) == [i \in 1..Len(names) |-> root \o "." \o names[i]]
        right_index_field_names ==
            [i \in 1..Len(right.schema.indexes) |->
                right.root \o ".indexes." \o _index_specs(right.schema)[i].name]
        star == IF join_used
                THEN left_field_names \o qualified(right.root, right_field_names)
                ELSE left_field_names
        allowed_seq == left_field_names \o qualified(left.root, left_field_names)
                       \o (IF join_used
                           THEN qualified(right.root, right_field_names)
                                \o right_index_field_names
                           ELSE <<>>)
        is_star == Len(select_raw) = 1 /\ select_raw[1] = "*"
    IN  IF ~is_star /\ \E i \in 1..Len(select_raw) :
                           \A j \in 1..Len(allowed_seq) : select_raw[i] # allowed_seq[j]
        THEN SqlError(IF join_used THEN "Unknown field in SELECT for JOIN query"
                      ELSE "Unknown field in SELECT")
        ELSE sql_execute(IF is_star THEN star ELSE SelectInternal(select_raw, left.root),
                         star, join_used, left, right,
                         IF join_used
                         THEN _parse_join_on(on_clause, left.root, right.root,
                                             left.schema, right.schema)
                         ELSE [ok |-> TRUE, conditions |-> <<>>],
                         _build_where_predicate(where_part, left.schema, left.root),
                         data)

\* sql, the roots: the schemas of the primary and of the joined root
sql_roots(select_part, where_part, on_clause, join_used, left, right, data) ==
    IF ~left.ok THEN left
    ELSE IF join_used /\ ~right.ok THEN right
    ELSE sql_select(StripAll(Split(select_part, ",")), where_part, on_clause,
                    join_used, left, right,
                    DictKeys(_field_specs(left.schema.fields, <<>>, <<>>)),
                    IF join_used
                    THEN DictKeys(_field_specs(right.schema.fields, <<>>, <<>>))
                    ELSE <<>>,
                    data)

\* sql, the ON clause of a join
sql_on(select_part, where_part, primary_from, join_used, rest_join, m_on, data, registry) ==
    IF join_used /\ ~m_on.found
    THEN SqlError("JOIN without ON clause is not supported")
    ELSE sql_roots(select_part, where_part,
                   IF join_used THEN pyStrip(Drop(rest_join, m_on.end)) ELSE "",
                   join_used,
                   _parse_from_root_spec(registry, primary_from),
                   IF join_used
                   THEN _parse_from_root_spec(registry,
                                              pyStrip(SubSeq(rest_join, 1, m_on.start)))
                   ELSE [ok |-> FALSE],
                   data)

\* sql, the JOIN of the FROM part
sql_join(select_part, where_part, from_join_part, m_join, data, registry) ==
    IF m_join.found
    THEN sql_on(select_part, where_part,
                pyStrip(SubSeq(from_join_part, 1, m_join.start)), TRUE,
                pyStrip(Drop(from_join_part, m_join.end)),
                SearchWord(pyStrip(Drop(from_join_part, m_join.end)), "on"),
                data, registry)
    ELSE sql_on(select_part, where_part, from_join_part, FALSE, "",
                [found |-> FALSE], data, registry)

\* sql, the WHERE clause split off the FROM part
sql_where(select_part, from_and_rest, m_where, data, registry) ==
    IF m_where.found
    THEN sql_join(select_part, pyStrip(Drop(from_and_rest, m_where.end)),
                  pyStrip(SubSeq(from_and_rest, 1, m_where.start)),
                  SearchJoin(pyStrip(SubSeq(from_and_rest, 1, m_where.start))),
                  data, registry)
    ELSE sql_join(select_part, "", from_and_rest, SearchJoin(from_and_rest),
                  data, registry)

\* sql, the match of _SQL_RE
sql_match(m, data, registry) ==
    IF ~m.ok THEN SqlError("Invalid SQL query")
    ELSE sql_where(pyStrip(m.select), pyStrip(m.from_and_rest),
                   SearchWord(pyStrip(m.from_and_rest), "where"), data, registry)

\* sql(query, json_data) with the registry SCHEMA_REGISTRY: the result list,
\* or the exception raised
sql(qry, data, registry) == sql_match(_SQL_RE_match(qry), data, registry)

---------------------------------------------------------------------------
(* mods/unflat.py *)
(* Dicts are objects: unflat stores the dicts it is given in the tree it   *)
(* builds and merges into them in place.  A heap is a sequence of dicts,   *)
(* a dict value is the reference Ref(id) to heap[id]; the values a dict    *)
(* holds are scalars, lists or references.                                 *)

Ref(id) == [k |-> "ref", id |-> id]

\* isinstance(v, dict) of a value held in the heap
IsRef(v) == v.k = "ref"

\* heap[id][key] = val
HeapSet(heap, id, key, val) == [heap EXCEPT ![id] = DictSet(@, key, val)]

\* {} : a new dict, whose id is Len(heap) + 1
HeapNew(heap) == Append(heap, <<>>)

\* the dicts of a value become objects of the heap: [v, heap]
RECURSIVE Intern(_, _)
RECURSIVE InternItems(_, _, _)
InternItems(items, acc, heap) ==
    IF items = <<>> THEN [m |-> acc, heap |-> heap]
    ELSE InternItems(Tail(items),
                     Append(acc, KV(Head(items).key, Intern(Head(items).val, heap).v)),
                     Intern(Head(items).val, heap).heap)
Intern(v, heap) ==
    IF v.k = "map"
    THEN [v    |-> Ref(Len(InternItems(v.m, <<>>, heap).heap) + 1),
          heap |-> Append(InternItems(v.m, <<>>, heap).heap,
                          InternItems(v.m, <<>>, heap).m)]
    ELSE [v |-> v, heap |-> heap]

\* the value a reference stands for, with the dicts written out
RECURSIVE Deref(_, _)
Deref(v, heap) ==
    IF IsRef(v)
    THEN M([i \in 1..Len(heap[v.id]) |->
              KV(heap[v.id][i].key, Deref(heap[v.id][i].val, heap))])
    ELSE v

\* the loop `for p in parts[:-1]` of _unflatten_fields: [heap, cur]
RECURSIVE UnflattenDescend(_, _, _)
UnflattenDescend(heap, cur, parts) ==
    IF parts = <<>> THEN [heap |-> heap, cur |-> cur]
    ELSE IF ~DictHas(heap[cur], Head(parts))
            \/ ~IsRef(DictGet(heap[cur], Head(parts), NULL))
    THEN UnflattenDescend(HeapSet(HeapNew(heap), cur, Head(parts), Ref(Len(heap) + 1)),
                          Len(heap) + 1, Tail(parts))
    ELSE UnflattenDescend(heap, DictGet(heap[cur], Head(parts), NULL).id, Tail(parts))

\* the loop `for key, value in flat_fields.items()` of _unflatten_fields;
\* `cur[parts[-1]] = value` replaces the value of a key that cur has and
\* adds the key to cur otherwise
RECURSIVE UnflattenLoop(_, _, _, _)
UnflattenStore(items, result, d, key, registry) ==
    IF DictHas(d.heap[d.cur], key)
    THEN UnflattenLoop(Tail(items), result,
                       HeapSet(d.heap, d.cur, key, Head(items).val), registry)
    ELSE UnflattenLoop(Tail(items), result,
                       [d.heap EXCEPT ![d.cur] = Append(@, KV(key, Head(items).val))],
                       registry)
UnflattenLoop(items, result, heap, registry) ==
    IF items = <<>> THEN heap
    ELSE LET parts == Split(Head(items).key, ".")
         IN  IF Len(parts) >= 3 /\ parts[2] = "indexes" /\ DictHas(registry, parts[1])
             THEN UnflattenLoop(Tail(items), result, heap, registry)
             ELSE UnflattenStore(items, result,
                                 UnflattenDescend(heap, result,
                                                  SubSeq(parts, 1, Len(parts) - 1)),
                                 parts[Len(parts)], registry)

\* _unflatten_fields(flat_fields): the new dict and the heap, [id, heap]
_unflatten_fields(flat_fields, heap, registry) ==
    [id   |-> Len(heap) + 1,
     heap |-> UnflattenLoop(flat_fields, Len(heap) + 1, HeapNew(heap), registry)]

\* _deep_merge(dst, src): the heap after merging heap[src] into heap[dst]
RECURSIVE _deep_merge(_, _, _)
RECURSIVE DeepMergeLoop(_, _, _)
DeepMergeLoop(dst, items, heap) ==
    IF items = <<>> THEN heap
    ELSE IF /\ DictHas(heap[dst], Head(items).key)
            /\ IsRef(DictGet(heap[dst], Head(items).key, NULL))
            /\ IsRef(Head(items).val)
    THEN DeepMergeLoop(dst, Tail(items),
                       _deep_merge(DictGet(heap[dst], Head(items).key, NULL).id,
                                   Head(items).val.id, heap))
    ELSE DeepMergeLoop(dst, Tail(items),
                       HeapSet(heap, dst, Head(items).key, Head(items).val))
_deep_merge(dst, src, heap) == DeepMergeLoop(dst, heap[src], heap)

\* result.setdefault(root, {}) where result has no such key
Setdefault(heap, result, root) ==
    HeapSet(HeapNew(heap), result, root, Ref(Len(heap) + 1))

\* result[root], a dict
RootObj(heap, result, root) ==
    [heap |-> heap, cur |-> DictGet(heap[result], root, NULL).id]

\* the loops `for idx_name in index_order` of _unflat_records: [heap, cur]
RECURSIVE IndexDescend(_, _, _)
IndexDescend(at, index_order, indexes) ==
    IF index_order = <<>> THEN at
    ELSE IF ~DictHas(indexes, Head(index_order))
    THEN IndexDescend(at, Tail(index_order), indexes)
    ELSE IF ~DictHas(at.heap[at.cur], pyStr(DictGet(indexes, Head(index_order), NULL)))
            \/ ~IsRef(DictGet(at.heap[at.cur],
                              pyStr(DictGet(indexes, Head(index_order), NULL)), NULL))
    THEN IndexDescend([heap |-> HeapSet(HeapNew(at.heap), at.cur,
                                        pyStr(DictGet(indexes, Head(index_order), NULL)),
                                        Ref(Len(at.heap) + 1)),
                       cur  |-> Len(at.heap) + 1],
                      Tail(index_order), indexes)
    ELSE IndexDescend([heap |-> at.heap,
                       cur  |-> DictGet(at.heap[at.cur],
                                        pyStr(DictGet(indexes, Head(index_order), NULL)),
                                        NULL).id],
                      Tail(index_order), indexes)

\* _deep_merge(node, _unflatten_fields(flat)) at the node reached
MergeFields(at, unflat_) == _deep_merge(at.cur, unflat_.id, unflat_.heap)
MergeAt(at, flat, registry) ==
    MergeFields(at, _unflatten_fields(flat, at.heap, registry))

\* the index names of the schema, last first
IndexOrder_reversed(sch) ==
    [i \in 1..Len(sch.indexes) |-> _index_specs(sch)[Len(sch.indexes) + 1 - i].name]

\* [spec["name"] for spec in _index_specs(schema)]
IndexOrder(sch) == [i \in 1..Len(sch.indexes) |-> _index_specs(sch)[i].name]

\* rec.get("_all_fields") or flat_fields_view
AllFlatFields(rec) ==
    IF "_all_fields" \in DOMAIN rec /\ rec._all_fields # <<>>
    THEN rec._all_fields ELSE rec.fields

\* _unflat_records, part 1: the record under its own root, result[root]
\* being there
UnflatPrimary(rec, result, heap, registry) ==
    MergeAt(IndexDescend(RootObj(heap, result, rec.root),
                         IF DictHas(registry, rec.root)
                         THEN IndexOrder(DictGet(registry, rec.root, NULL))
                         ELSE DictKeys(rec.indexes),
                         rec.indexes),
            SelectSeq(rec.fields,
                      LAMBDA kv : ~(/\ DictHas(registry, Split(kv.key, ".")[1])
                                    /\ Split(kv.key, ".")[1] # rec.root)),
            registry)

\* other_indexes and other_fields_flat of _unflat_records
OtherIndexes(rec, other_root) ==
    LET prefix_idx == other_root \o ".indexes."
        hits == SelectSeq(AllFlatFields(rec), LAMBDA kv : StartsWith(kv.key, prefix_idx))
    IN  [i \in 1..Len(hits) |-> KV(Drop(hits[i].key, Len(prefix_idx)), hits[i].val)]
OtherFieldsFlat(rec, other_root) ==
    LET prefix_fld == other_root \o "."
        hits == SelectSeq(rec.fields,
                          LAMBDA kv : /\ StartsWith(kv.key, prefix_fld)
                                      /\ ~StartsWith(Drop(kv.key, Len(prefix_fld)),
                                                     "indexes."))
    IN  [i \in 1..Len(hits) |-> KV(Drop(hits[i].key, Len(prefix_fld)), hits[i].val)]

\* _unflat_records, part 2: the loop over the other registered roots
RECURSIVE UnflatOthers(_, _, _, _, _)
UnflatOthers(rec, items, result, heap, registry) ==
    IF items = <<>> THEN heap
    ELSE IF Head(items).key = rec.root
            \/ (OtherIndexes(rec, Head(items).key) = <<>>
                /\ OtherFieldsFlat(rec, Head(items).key) = <<>>)
    THEN UnflatOthers(rec, Tail(items), result, heap, registry)
    ELSE IF ~DictHas(heap[result], Head(items).key)
    THEN UnflatOthers(rec, items, result,
                      Setdefault(heap, result, Head(items).key), registry)
    ELSE UnflatOthers(rec, Tail(items), result,
             MergeAt(IndexDescend(RootObj(heap, result, Head(items).key),
                                  IndexOrder(Head(items).val),
                                  OtherIndexes(rec, Head(items).key)),
                     OtherFieldsFlat(rec, Head(items).key),
                     registry),
             registry)

\* the loop `for rec in records` of _unflat_records
RECURSIVE UnflatLoop(_, _, _, _)
UnflatLoop(records, result, heap, registry) ==
    IF records = <<>> THEN heap
    ELSE IF Head(records).root = ""
    THEN UnflatLoop(Tail(records), result, heap, registry)
    ELSE IF ~DictHas(heap[result], Head(records).root)
    THEN UnflatLoop(records, result,
                    Setdefault(heap, result, Head(records).root), registry)
    ELSE UnflatLoop(Tail(records), result,
                    UnflatOthers(Head(records), registry, result,
                                 UnflatPrimary(Head(records), result, heap, registry),
                                 registry),
                    registry)

\* _unflat_records(records) on records whose dicts are in the heap: the
\* result dict and the heap, [id, heap]
_unflat_records(records, heap, registry) ==
    [id   |-> Len(heap) + 1,
     heap |-> UnflatLoop(records, Len(heap) + 1, HeapNew(heap), registry)]

\* the records of a call, their dict values made objects: [records, heap]
RECURSIVE InternRecords(_, _, _)
InternRecord(rec, fields_) ==
    IF "_all_fields" \in DOMAIN rec
    THEN [root |-> rec.root, indexes |-> rec.indexes, fields |-> fields_,
          _all_fields |-> rec._all_fields]
    ELSE [root |-> rec.root, indexes |-> rec.indexes, fields |-> fields_]
InternRecords(records, acc, heap) ==
    IF records = <<>> THEN [records |-> acc, heap |-> heap]
    ELSE InternRecords(Tail(records),
             Append(acc, InternRecord(Head(records),
                                      InternItems(Head(records).fields, <<>>, heap).m)),
             InternItems(Head(records).fields, <<>>, heap).heap)

\* the records as the caller sees them in a heap
DerefRecords(records, heap) ==
    [i \in 1..Len(records) |->
        InternRecord(records[i],
                     [j \in 1..Len(records[i].fields) |->
                         KV(records[i].fields[j].key,
                            Deref(records[i].fields[j].val, heap))])]

\* _unflat_records(list(results)) as a call: what it returns and what the
\* records passed in have become
UnflatCall(interned, registry) ==
    LET r == _unflat_records(interned.records, interned.heap, registry)
    IN  [ret     |-> Deref(Ref(r.id), r.heap),
         records |-> DerefRecords(interned.records, r.heap)]

\* the loop `for field_name, recs in results.items()` of unflat
RECURSIVE UnflatEach(_, _, _, _)
UnflatEach(items, ret, after, registry) ==
    IF items = <<>> THEN [ret |-> M(ret), results |-> M(after)]
    ELSE IF Head(items).val.k # "list"
    THEN UnflatEach(Tail(items), ret, Append(after, Head(items)), registry)
    ELSE UnflatEach(Tail(items),
             Append(ret, KV(Head(items).key,
                            UnflatCall(InternRecords(Head(items).val.l, <<>>, <<>>),
                                       registry).ret)),
             Append(after, KV(Head(items).key,
                              L(UnflatCall(InternRecords(Head(items).val.l, <<>>, <<>>),
                                           registry).records))),
             registry)

\* unflat(results): [ret, results], the nested document returned and the
\* argument after the call
unflat(res, registry) ==
    IF res.k = "map" THEN UnflatEach(res.m, <<>>, <<>>, registry)
    ELSE [ret     |-> UnflatCall(InternRecords(res.l, <<>>, <<>>), registry).ret,
          results |-> L(UnflatCall(InternRecords(res.l, <<>>, <<>>), registry).records)]

---------------------------------------------------------------------------
(* The inputs the operations are applied to *)

MaxResults == 2
MaxWords == 4

\* schemas shaped like the ones of search/__init__.py: one index and a
\* nested group; two groups with a leaf of the same name; two indexes
BookSchema ==
    [root |-> "b", indexes |-> <<"id">>,
     fields |-> <<Leaf("t", NULL), Leaf("g", NULL),
                  Group("p", <<Leaf("n", NULL), Leaf("c", S("?"))>>)>>]
MovieSchema ==
    [root |-> "m", indexes |-> <<"id">>,
     fields |-> <<Leaf("t", NULL),
                  Group("p", <<Leaf("c", NULL)>>),
                  Group("s", <<Leaf("c", NULL)>>)>>]
LibSchema ==
    [root |-> "lib", indexes |-> <<"site", "id">>,
     fields |-> <<Leaf("t", NULL), Group("p", <<Leaf("c", NULL)>>)>>]
Schemas == {BookSchema, MovieSchema, LibSchema}

Book1 == M(<<KV("t", S("Aa")), KV("g", L(<<S("x"), S("a b")>>)),
             KV("p", M(<<KV("n", S("N")), KV("c", S(" L "))>>))>>)
Book2 == M(<<KV("t", S("ab")), KV("p", M(<<KV("c", S("l"))>>))>>)
Book3 == M(<<KV("t", S("b")), KV("p", S("junk")), KV("g", L(<<>>))>>)
Movie1 == M(<<KV("t", S("aa")), KV("p", M(<<KV("c", S("L"))>>)),
              KV("s", M(<<KV("c", S("B"))>>))>>)
Movie2 == M(<<KV("t", I(1)), KV("s", M(<<KV("c", S("l"))>>))>>)

Books == M(<<KV("2", Book2), KV("1", Book1), KV("x", S("junk")), KV("3", Book3)>>)
Movies == M(<<KV("1", Movie1), KV("2", Movie2)>>)
Lib == M(<<KV("s2", M(<<KV("1", Book1), KV("x", NULL)>>)),
           KV("s1", M(<<KV("2", Book2), KV("1", Book3)>>)),
           KV("s0", S("junk"))>>)

Docs ==
    { M(<<KV("b", Books), KV("m", Movies)>>),
      M(<<KV("m", Movies), KV("lib", Lib)>>),
      M(<<KV("lib", Lib), KV("b", Books)>>),
      M(<<KV("b", S("junk"))>>),
      M(<<>>) }

\* the attribute lists of the filter models declared against a schema
FilterAttrLists == {<<>>, <<"id">>, <<"t">>, <<"id", "c">>, <<"site", "t">>}

FilterModels(sch) ==
    {filters_decorator(sch, names) : names \in
        {n \in FilterAttrLists : filters_decorator(sch, n).ok}}

\* the values passed for a filter attribute
AttrValues(name) ==
    CASE name = "id"   -> {NULL, S("1"), I(1)}
      [] name = "site" -> {NULL, S("b"), S("s1")}
      [] name = "t"    -> {NULL, S(" AA "), I(1)}
      [] name = "c"    -> {NULL, S("L")}

\* the dicts attrs -> values, in the order of attrs
RECURSIVE ValDicts(_)
ValDicts(attrs) ==
    IF attrs = <<>> THEN {<<>>}
    ELSE {<<KV(Head(attrs), v)>> \o d :
            v \in AttrValues(Head(attrs)), d \in ValDicts(Tail(attrs))}

FilterInstances(sch) ==
    {NoFilters} \cup
    UNION {{FiltersInstance(m, vals) : vals \in ValDicts(m.attrs)} : m \in FilterModels(sch)}

FieldNames == {"t", "g"}
SearchQueries == {"a", "a NOT b", "A OR x", " ", "(a"}

\* the words a query string is made of, joined by sep
Words == {"a", "b", "AND", "OR", "NOT", "(", ")"}
Seps == {" ", ""}

RECURSIVE Join(_, _)
Join(ws, sep) ==
    IF ws = <<>> THEN ""
    ELSE IF Len(ws) = 1 THEN ws[1]
    ELSE ws[1] \o sep \o Join(Tail(ws), sep)

QueryStrings ==
    {Join(ws, sep) : ws \in UNION {[1..n -> Words] : n \in 1..MaxWords}, sep \in Seps}

---------------------------------------------------------------------------
(* The operations *)

NoOut == [op |-> "none"]

\* no record list at hand
NoResults == L(<<>>)

\* no class is being declared
NoClass == [kind |-> "none"]

\* search's defaults exact=False, temp=80; no term and no entry at hand
DefaultArgs == [exact |-> FALSE, temp |-> 80, term |-> "", e |-> <<>>]

\* a document, a schema and a Filters instance are at hand
Init ==
    /\ pc = "call"
    /\ json_data \in Docs
    /\ schema \in Schemas
    /\ filters \in FilterInstances(schema)
    /\ fields = ""
    /\ query = ""
    /\ max_results = 0
    /\ args = DefaultArgs
    /\ cls = NoClass
    /\ SCHEMA_REGISTRY = <<>>
    /\ results = NoResults
    /\ out = NoOut

\* entries = _filtered_entries(schema, json_data, filters)
Flatten ==
    /\ pc = "call"
    /\ pc' = "flatten"
    /\ out' = [op |-> "flatten",
               all |-> _all_entries(schema, json_data, filters),
               entries |-> _filtered_entries(schema, json_data, filters)]
    /\ UNCHANGED <<json_data, schema, filters, fields, query, max_results,
                 args, cls, SCHEMA_REGISTRY, results>>

\* search(json_data, fields, query, schema, filters_model, max_results=...)
\* with one field name, non-fuzzy, exact=False
Search ==
    /\ pc = "call"
    /\ pc' = "search"
    /\ \E f \in FieldNames, q \in SearchQueries, n \in 0..MaxResults :
          /\ fields' = f
          /\ query' = q
          /\ max_results' = n
          /\ out' = [op |-> "search",
                     ret |-> search(json_data, f, q, schema, filters, n, FALSE)]
    /\ UNCHANGED <<json_data, schema, filters,
                 args, cls, SCHEMA_REGISTRY, results>>

\* the field values of the entries a term is matched on
FieldValues ==
    {NULL, S(" Ab "), S("b"), S(""), I(1), B(TRUE), L(<<>>), L(<<NULL>>),
     L(<<S("aB"), NULL>>), L(<<S("x"), S(" a")>>)}
MatchEntries == {<<>>} \cup {<<KV("t", v)>> : v \in FieldValues}

\* the terms of a query: runs without blanks and parentheses
Terms == {"a", "A", "ab", "b", "B", "1", "x", "true"}

\* the temperatures beyond both ends of [0, 100] that are tried
TempSlack == 3
Temps == (0 - TempSlack)..(100 + TempSlack)

\* the predicate of a TERM is about to be applied to an entry
InitMatch ==
    /\ pc = "call"
    /\ json_data = M(<<>>)
    /\ schema = BookSchema
    /\ filters = NoFilters
    /\ fields = "t"
    /\ query = ""
    /\ max_results = 0
    /\ args \in {[exact |-> x, temp |-> 80, term |-> t, e |-> e] :
                    x \in BOOLEAN, t \in Terms, e \in MatchEntries}
    /\ cls = NoClass
    /\ SCHEMA_REGISTRY = <<>>
    /\ results = NoResults
    /\ out = NoOut

\* _QueryParser._parse_primary._pred(entry), non-fuzzy:
\*   targets = get_targets(entry); _targets_match_term(targets, t, ...)
TargetsMatchTerm ==
    /\ pc = "call"
    /\ pc' = "match"
    /\ out' = [op |-> "match",
               targets |-> _get_targets_auto(args.e, fields),
               match |-> _targets_match_term(_get_targets_auto(args.e, fields),
                                             args.term, args.exact)]
    /\ UNCHANGED <<json_data, schema, filters, fields, query, max_results,
                   args, cls, SCHEMA_REGISTRY, results>>

\* threshold = _similarity_threshold(temp)
SimilarityThreshold ==
    /\ pc = "call"
    /\ pc' = "threshold"
    /\ \E t \in Temps :
          /\ args' = [args EXCEPT !.temp = t]
          /\ out' = [op |-> "threshold", threshold |-> _similarity_threshold(t)]
    /\ UNCHANGED <<json_data, schema, filters, fields, query, max_results,
                   cls, SCHEMA_REGISTRY, results>>

NextMatch == TargetsMatchTerm \/ SimilarityThreshold

SpecMatch == InitMatch /\ [][NextMatch]_vars

\* a second schema declared for the root of BookSchema
BookSchema2 ==
    [root |-> "b", indexes |-> <<"id">>,
     fields |-> <<Leaf("t", NULL), Leaf("y", NULL)>>]
RegSchemas == {BookSchema, BookSchema2, MovieSchema}

\* the documents queried: the two collections under their root keys, and a
\* collection by itself
SqlDocs == {M(<<KV("b", Books), KV("m", Movies)>>), Books}

\* the parts SQL queries are made of
SqlSelects ==
    {"*", "t", "b.t, m.t", "t, g, n, c", "m.indexes.id, c", "m.indexes.id, m.t", "zz"}
SqlFroms ==
    {"b", "m", "b JOIN m ON b.t = m.t", "b INNER JOIN m ON b.t = m.t",
     "b JOIN m", "b INNER JOIN m", "b CROSS JOIN m",
     "b inner  join m on b.c = m.c AND b.indexes.id = m.indexes.id",
     "b join m on b.c = m.c AND b.indexes.id = m.indexes.id",
     "b JOIN b ON b.indexes.id = b.indexes.id", "b JOIN b ON b.t = b.t"}
SqlWheres ==
    {"", " WHERE t = 'ab'", " WHERE zz = 1", " WHERE indexes.zz = 1",
     " WHERE m.zz = 1", " WHERE t != 'ab'", " WHERE t < 1",
     " WHERE id = '2' OR b.t = 'b'",
     " WHERE m.t = 1 AND (c = '?' OR indexes.id = 'b')"}
SqlQueries ==
    {"SELECT " \o s \o " FROM " \o f : s \in SqlSelects, f \in SqlFroms}
    \cup {"SELECT " \o s \o " FROM " \o f \o w :
             s \in {"*", "t"},
             f \in {"b", "b JOIN m ON b.t = m.t", "b INNER JOIN m ON b.t = m.t"},
             w \in SqlWheres}

\* sql.py has been imported: the registry is empty
InitSql ==
    /\ pc = "call"
    /\ json_data \in SqlDocs
    /\ schema = BookSchema
    /\ filters = NoFilters
    /\ fields = ""
    /\ query = ""
    /\ max_results = 0
    /\ args = DefaultArgs
    /\ cls = NoClass
    /\ SCHEMA_REGISTRY = <<>>
    /\ results = NoResults
    /\ out = NoOut

\* register_schema(schema)
RegisterSchema ==
    /\ pc = "call"
    /\ \E s \in RegSchemas :
          /\ schema' = s
          /\ SCHEMA_REGISTRY' = register_schema(SCHEMA_REGISTRY, s)
    /\ out' = [op |-> "register", ret |-> NULL]
    /\ UNCHANGED <<pc, json_data, filters, fields, query, max_results, args, cls, results>>

\* sql(query, json_data)
Sql ==
    /\ pc = "call"
    /\ pc' = "sql"
    /\ \E q \in SqlQueries :
          /\ query' = q
          /\ out' = [op |-> "sql", ret |-> sql(q, json_data, SCHEMA_REGISTRY)]
    /\ UNCHANGED <<json_data, schema, filters, fields, max_results, args, cls,
                   SCHEMA_REGISTRY, results>>

\* unflat(rows), the rows being what sql(query, json_data) returned
UnflatSql ==
    /\ pc = "sql"
    /\ out.ret.ok
    /\ pc' = "unflat"
    /\ results' = unflat(L(out.ret.results), SCHEMA_REGISTRY).results
    /\ out' = [op |-> "unflat", arg |-> L(out.ret.results),
               ret |-> unflat(L(out.ret.results), SCHEMA_REGISTRY).ret]
    /\ UNCHANGED <<json_data, schema, filters, fields, query, max_results, args,
                   cls, SCHEMA_REGISTRY>>

NextSql == RegisterSchema \/ Sql \/ UnflatSql

SpecSql == InitSql /\ [][NextSql]_vars

\* the classes declared: what they extend, what they annotate, and which
\* of their attributes are assigned a value
ClassBases == {"Indexes", "Fields", "Filters"}
ClassAnnotations == {<<>>, <<"id">>, <<"t">>, <<"id", "c">>, <<"id", "t">>, <<"zz">>}
ClassDicts ==
    {<<>>, <<KV("id", NULL)>>, <<KV("t", S("x"))>>,
     <<KV("id", NULL), KV("t", B(TRUE))>>, <<KV("helper", S("f"))>>}
Classes == {Class(b, a, d) : b \in ClassBases, a \in ClassAnnotations, d \in ClassDicts}

\* a class body has been evaluated and a decorator is about to be applied
InitDecl ==
    /\ pc = "call"
    /\ json_data = M(<<>>)
    /\ schema \in Schemas
    /\ filters = NoFilters
    /\ fields = ""
    /\ query = ""
    /\ max_results = 0
    /\ args = DefaultArgs
    /\ cls \in Classes
    /\ SCHEMA_REGISTRY = <<>>
    /\ results = NoResults
    /\ out = NoOut

\* @indexes  class ...
DeclareIndexes ==
    /\ pc = "call"
    /\ pc' = "declared"
    /\ out' = [op |-> "indexes", ret |-> indexes_wrap(cls)]
    /\ UNCHANGED <<json_data, schema, filters, fields, query, max_results,
                   args, cls, SCHEMA_REGISTRY, results>>

\* @fields  class ...
DeclareFields ==
    /\ pc = "call"
    /\ pc' = "declared"
    /\ out' = [op |-> "fields", ret |-> fields_wrap(cls)]
    /\ UNCHANGED <<json_data, schema, filters, fields, query, max_results,
                   args, cls, SCHEMA_REGISTRY, results>>

\* @filters(schema=schema)  class ...
DeclareFilters ==
    /\ pc = "call"
    /\ pc' = "declared"
    /\ out' = [op |-> "filters", ret |-> decorator(schema, cls)]
    /\ UNCHANGED <<json_data, schema, filters, fields, query, max_results,
                   args, cls, SCHEMA_REGISTRY, results>>

NextDecl == DeclareIndexes \/ DeclareFields \/ DeclareFilters

SpecDecl == InitDecl /\ [][NextDecl]_vars

\* the registry after register_schema of the three schemas
AllRegistered ==
    register_schema(register_schema(register_schema(<<>>, BookSchema), MovieSchema),
                    LibSchema)

\* the canonical records of flatten(sch, data, no filters)
CanonicalRecords(sch, data) ==
    [i \in 1..Len(_all_entries(sch, data, NoFilters)) |->
        _reshape_entry(_all_entries(sch, data, NoFilters)[i], sch)]

\* the records unflat is called on
Rec(root, indexes, fields_) == [root |-> root, indexes |-> indexes, fields |-> fields_]
UnflatRecords ==
    { Rec("b", <<KV("id", S("1"))>>, <<KV("t", S("A")), KV("p.c", S("x"))>>),
      Rec("b", <<KV("id", S("1"))>>, <<KV("p", M(<<KV("c", I(1))>>))>>),
      Rec("b", <<KV("id", S("1"))>>, <<KV("p", M(<<KV("d", I(2))>>))>>),
      Rec("b", <<KV("id", S("2"))>>, <<KV("t", S("B"))>>),
      Rec("b", <<KV("id", I(1))>>, <<KV("g", L(<<S("x")>>))>>),
      Rec("b", <<KV("id", S("1"))>>, <<KV("p", M(<<KV("c", I(1))>>)), KV("p.d", I(5))>>),
      Rec("b", <<KV("id", S("3"))>>, <<KV("t", NULL), KV("m.t", S("X"))>>),
      Rec("lib", <<KV("site", S("s")), KV("id", S("1"))>>, <<KV("t", S("A"))>>),
      Rec("lib", <<KV("id", S("1")), KV("site", S("s"))>>, <<KV("p.c", S("B"))>>),
      Rec("lib", <<KV("site", S("1")), KV("id", S("s"))>>, <<KV("t", S("C"))>>),
      Rec("lib", <<KV("id", S("1"))>>, <<KV("t", S("D"))>>),
      Rec("zz", <<KV("k2", S("a")), KV("k1", S("b"))>>, <<KV("t", I(1))>>) }
UnflatInputs ==
    {L(<<>>)}
    \cup {L(<<r>>) : r \in UnflatRecords}
    \cup {L(<<r1, r2>>) : r1 \in UnflatRecords, r2 \in UnflatRecords}
    \cup {M(<<KV("t", L(<<r>>)), KV("g", L(<<>>)), KV("zz", NULL)>>) :
             r \in UnflatRecords}

\* the documents flattened before unflattening
UnflatDocs == Docs \cup {Books, Lib}

\* the schemas are registered and unflat is about to be called
InitUnflat ==
    /\ pc = "call"
    /\ json_data \in UnflatDocs
    /\ schema \in Schemas
    /\ filters = NoFilters
    /\ fields = ""
    /\ query = ""
    /\ max_results = 0
    /\ args = DefaultArgs
    /\ cls = NoClass
    /\ SCHEMA_REGISTRY = AllRegistered
    /\ results = NoResults
    /\ out = NoOut

\* unflat(results)
Unflat ==
    /\ pc = "call"
    /\ pc' = "unflat"
    /\ \E rs \in UnflatInputs :
          /\ results' = unflat(rs, SCHEMA_REGISTRY).results
          /\ out' = [op |-> "unflat", arg |-> rs,
                     ret |-> unflat(rs, SCHEMA_REGISTRY).ret]
    /\ UNCHANGED <<json_data, schema, filters, fields, query, max_results, args,
                   cls, SCHEMA_REGISTRY>>

\* unflat(records), the records being the canonical records of
\* flatten(schema, json_data, no filters)
UnflatFlattened ==
    /\ pc = "call"
    /\ pc' = "unflat"
    /\ results' = unflat(L(CanonicalRecords(schema, json_data)), SCHEMA_REGISTRY).results
    /\ out' = [op |-> "roundtrip", arg |-> L(CanonicalRecords(schema, json_data)),
               ret |-> unflat(L(CanonicalRecords(schema, json_data)),
                              SCHEMA_REGISTRY).ret]
    /\ UNCHANGED <<json_data, schema, filters, fields, query, max_results, args,
                   cls, SCHEMA_REGISTRY>>

\* the entities, paths and defaults a field is resolved on
GetInEntities ==
    { M(<<>>), S("junk"), NULL,
      M(<<KV("t", S("a"))>>), M(<<KV("t", NULL)>>), M(<<KV("t", M(<<>>))>>),
      M(<<KV("p", M(<<KV("c", S("x")), KV("n", NULL)>>)), KV("t", I(0))>>),
      M(<<KV("p", NULL)>>), M(<<KV("p", S("junk")), KV("t", B(FALSE))>>),
      M(<<KV("p", M(<<KV("c", NULL)>>))>>),
      M(<<KV("p", M(<<KV("c", M(<<KV("c", NULL)>>))>>))>>),
      M(<<KV("p", L(<<S("c")>>)), KV("t", L(<<>>))>>) }
GetInPaths == {<<"t">>, <<"p", "c">>, <<"p", "n">>, <<"p", "c", "c">>}
GetInDefaults == {NULL, S("?"), I(0)}

\* a field of an entity is about to be resolved
InitGetIn ==
    /\ pc = "call"
    /\ json_data = M(<<>>)
    /\ schema = BookSchema
    /\ filters = NoFilters
    /\ fields = ""
    /\ query = ""
    /\ max_results = 0
    /\ args \in [entity : GetInEntities, path : GetInPaths, default : GetInDefaults]
    /\ cls = NoClass
    /\ SCHEMA_REGISTRY = <<>>
    /\ results = NoResults
    /\ out = NoOut

\* value = _get_in(entity, spec["path"], spec["default"])
GetIn ==
    /\ pc = "call"
    /\ pc' = "get_in"
    /\ out' = [op |-> "get_in", value |-> _get_in(args.entity, args.path, args.default)]
    /\ UNCHANGED <<json_data, schema, filters, fields, query, max_results, args,
                   cls, SCHEMA_REGISTRY, results>>

NextGetIn == GetIn

SpecGetIn == InitGetIn /\ [][NextGetIn]_vars

\* a schema that declares a field under the name of its index
IdSchema ==
    [root |-> "b", indexes |-> <<"id">>,
     fields |-> <<Leaf("t", NULL), Leaf("id", NULL)>>]
IdBooks ==
    M(<<KV("1", M(<<KV("t", S("a")), KV("id", S("X"))>>)),
        KV("2", M(<<KV("t", S("ab"))>>)),
        KV("3", M(<<KV("t", S("a b")), KV("id", I(7)), KV("g", L(<<S("a")>>))>>))>>)
IdDocs == UnflatDocs \cup {IdBooks, M(<<KV("b", IdBooks)>>)}

\* flatten and search are about to be called with that schema
InitId ==
    /\ pc = "call"
    /\ json_data \in IdDocs
    /\ schema = IdSchema
    /\ filters = NoFilters
    /\ fields = ""
    /\ query = ""
    /\ max_results = 0
    /\ args = DefaultArgs
    /\ cls = NoClass
    /\ SCHEMA_REGISTRY = <<>>
    /\ results = NoResults
    /\ out = NoOut

NextId == Flatten \/ Search

SpecId == InitId /\ [][NextId]_vars

\* the token sequences the parsers are run on
MaxTokens == 4
ParserTokens == {"a", "AND", "OR", "NOT", "(", ")", "="}
TokenSeqs == UNION {[1..n -> ParserTokens] : n \in 0..MaxTokens}

\* a parser has been constructed on a token sequence
InitParse ==
    /\ pc = "call"
    /\ json_data = M(<<>>)
    /\ schema = BookSchema
    /\ filters = NoFilters
    /\ fields = "t"
    /\ query = ""
    /\ max_results = 0
    /\ args \in [tokens : TokenSeqs]
    /\ cls = NoClass
    /\ SCHEMA_REGISTRY = <<>>
    /\ results = NoResults
    /\ out = NoOut

\* _QueryParser(tokens, ...).parse()
QueryParse ==
    /\ pc = "call"
    /\ pc' = "parse"
    /\ out' = [op |-> "query", ret |-> parse(args.tokens)]
    /\ UNCHANGED <<json_data, schema, filters, fields, query, max_results, args,
                   cls, SCHEMA_REGISTRY, results>>

\* _WhereParser(tokens, index_names, primary_root).parse()
WhereParse ==
    /\ pc = "call"
    /\ pc' = "parse"
    /\ out' = [op |-> "where",
               ret |-> _WhereParser_parse(args.tokens,
                          {schema.indexes[i] : i \in 1..Len(schema.indexes)},
                          schema.root)]
    /\ UNCHANGED <<json_data, schema, filters, fields, query, max_results, args,
                   cls, SCHEMA_REGISTRY, results>>

NextParse == QueryParse \/ WhereParse

SpecParse == InitParse /\ [][NextParse]_vars

NextUnflat == Unflat \/ UnflatFlattened

SpecUnflat == InitUnflat /\ [][NextUnflat]_vars

Next == Flatten \/ Search

Spec == Init /\ [][Next]_vars

\* a call of _build_query_predicate is about to be made
InitQuery ==
    /\ pc = "call"
    /\ json_data = M(<<>>)
    /\ schema = BookSchema
    /\ filters = NoFilters
    /\ fields = "t"
    /\ query \in QueryStrings
    /\ max_results = 0
    /\ args = DefaultArgs
    /\ cls = NoClass
    /\ SCHEMA_REGISTRY = <<>>
    /\ results = NoResults
    /\ out = NoOut

\* predicate = _build_query_predicate(query, ...), step by step
BuildQueryPredicate ==
    /\ pc = "call"
    /\ pc' = "build"
    /\ out' = [op |-> "build",
               tokens |-> IF pyStrip(query) = "" THEN <<>>
                          ELSE TOKEN_RE_findall(pyStrip(query)),
               with_and |-> IF pyStrip(query) = "" THEN <<>>
                            ELSE _insert_implicit_and(TOKEN_RE_findall(pyStrip(query))),
               pred |-> _build_query_predicate(query)]
    /\ UNCHANGED <<json_data, schema, filters, fields, query, max_results,
                 args, cls, SCHEMA_REGISTRY, results>>

NextQuery == BuildQueryPredicate

SpecQuery == InitQuery /\ [][NextQuery]_vars

---------------------------------------------------------------------------
(* What the claims are stated with *)

\* the index names of a schema, as a set
IndexNames(sch) == {sch.indexes[i] : i \in 1..Len(sch.indexes)}

\* the keys a record holds for the index levels, outermost first
IndexPath(rec, sch) ==
    [i \in 1..Len(sch.indexes) |-> DictGet(rec, sch.indexes[i], NULL)]

\* the leaves of a field tree: [path, default], path being the names from
\* the top of the tree down to the leaf
RECURSIVE LeafPaths(_, _)
LeafPaths(attrs, prefix) ==
    UNION {IF attrs[i].group
           THEN LeafPaths(attrs[i].sub, Append(prefix, attrs[i].name))
           ELSE {[path |-> Append(prefix, attrs[i].name), default |-> attrs[i].default]}
           : i \in 1..Len(attrs)}

\* whether every step of path exists in the entity, through mappings
RECURSIVE Present(_, _)
Present(node, path) ==
    \/ path = <<>>
    \/ /\ IsDict(node)
       /\ DictHas(node.m, Head(path))
       /\ Present(DictGet(node.m, Head(path), NULL), Tail(path))

\* the value found at a path that is present
RECURSIVE ValueAt(_, _)
ValueAt(node, path) ==
    IF path = <<>> THEN node ELSE ValueAt(DictGet(node.m, Head(path), NULL), Tail(path))

\* the key sequences of length n that lead from node through mappings to a
\* mapping
RECURSIVE PathsFrom(_, _)
PathsFrom(node, n) ==
    IF ~IsDict(node) THEN {}
    ELSE IF n = 0 THEN {<<>>}
    ELSE UNION {{<<S(node.m[i].key)>> \o kp : kp \in PathsFrom(node.m[i].val, n - 1)}
                : i \in 1..Len(node.m)}

\* the positions, level by level, of the keys of a key sequence
RECURSIVE PosPath(_, _)
PosPath(node, kp) ==
    IF kp = <<>> THEN <<>>
    ELSE <<CHOOSE i \in 1..Len(node.m) : node.m[i].key = Head(kp).s>>
         \o PosPath(DictGet(node.m, Head(kp).s, NULL), Tail(kp))

\* lexicographic order on position sequences of the same length
LexLess(a, b) ==
    \E i \in 1..Len(a) : a[i] < b[i] /\ \A j \in 1..(i - 1) : a[j] = b[j]

\* case-folded, trimmed string form of a non-null value
Folded(v) == pyLower(pyStrip(pyStr(v)))

---------------------------------------------------------------------------
(* C1 *)

\* C1: flatten starts its traversal at json_data[schema.root]: every record
\* describes an entity found under that root key by following the record's
\* index keys, and without the key schema.root the result is empty.
C1_FlattenStartsAtRoot ==
    pc = "flatten" =>
        IF ~DictHas(json_data.m, schema.root) THEN out.all = <<>>
        ELSE \A i \in 1..Len(out.all) :
                LET under == DictGet(json_data.m, schema.root, NULL)
                    kp    == IndexPath(out.all[i], schema)
                IN  /\ kp \in PathsFrom(under, Len(schema.indexes))
                    /\ DictGet(out.all[i], "entity", NULL)
                         = ValueAt(under, [j \in 1..Len(kp) |-> kp[j].s])

---------------------------------------------------------------------------
(* C2 *)

\* C2 (P1): every record emitted by the flattener holds a value for every
\* index attribute and, under its dotted name, for every flat field path of
\* the schema; the value is the declared default when the field is absent
\* in the entity.
C2_RecordHasEveryIndexAndFlatPath ==
    pc = "flatten" =>
        \A i \in 1..Len(out.all) :
            LET rec    == out.all[i]
                entity == DictGet(rec, "entity", NULL)
            IN  /\ \A n \in IndexNames(schema) : DictHas(rec, n)
                /\ \A lf \in LeafPaths(schema.fields, <<>>) :
                      /\ DictHas(rec, DotJoin(lf.path))
                      /\ ~Present(entity, lf.path)
                            => DictGet(rec, DotJoin(lf.path), NULL) = lf.default

---------------------------------------------------------------------------
(* C3 *)

\* C3: each flat field is stored under its dotted leaf path; two leaves with
\* the same final name under different groups give two keys, each holding
\* the value found at its own path.
C3_FieldsKeyedByDottedPath ==
    pc = "flatten" =>
        \A i \in 1..Len(out.all) :
            LET rec    == out.all[i]
                entity == DictGet(rec, "entity", NULL)
            IN  \A lf \in LeafPaths(schema.fields, <<>>) :
                    Present(entity, lf.path) /\ ValueAt(entity, lf.path) # NULL
                        => /\ DictHas(rec, DotJoin(lf.path))
                           /\ DictGet(rec, DotJoin(lf.path), NULL)
                                = ValueAt(entity, lf.path)

---------------------------------------------------------------------------
(* C4 *)

\* the index filter value passed for an index name, NULL when there is none
PassedIndexFilter(name) ==
    IF filters.none THEN NULL ELSE DictGet(filters.vals, name, NULL)

\* the key sequences through all index levels of the document walked that
\* end at a mapping and agree with every index filter passed
ExpectedIndexPaths ==
    {kp \in PathsFrom(json_data, Len(schema.indexes)) :
        \A d \in 1..Len(schema.indexes) :
            PassedIndexFilter(schema.indexes[d]) # NULL
                => pyStr(kp[d]) = pyStr(PassedIndexFilter(schema.indexes[d]))}

\* C4 (P2): the flattener emits one record for every key sequence through
\* all index levels that ends at a mapping; an index filter value v at
\* depth d keeps exactly the records whose key at depth d has the string
\* form of v, and restricts no other level.
C4_IndexFilters ==
    pc = "flatten" =>
        /\ {IndexPath(out.all[i], schema) : i \in 1..Len(out.all)} = ExpectedIndexPaths
        /\ Len(out.all) = Cardinality(ExpectedIndexPaths)

\* a filter value that is not a string selects the keys with its string form
C4_Witness ==
    /\ pc = "flatten"
    /\ \E d \in 1..Len(schema.indexes) :
          /\ PassedIndexFilter(schema.indexes[d]).k = "int"
          /\ \E e \in 1..Len(schema.indexes) :
                e # d /\ PassedIndexFilter(schema.indexes[e]) = NULL
    /\ Len(out.all) >= 2
    /\ Cardinality(PathsFrom(json_data, Len(schema.indexes))) > Len(out.all)

---------------------------------------------------------------------------
(* C5 *)

\* the flat field paths a filter attribute name can stand for: the path with
\* that dotted name, or the paths with that final name
BoundPaths(sch, name) ==
    LET leaves == LeafPaths(sch.fields, <<>>)
    IN  IF \E lf \in leaves : DotJoin(lf.path) = name
        THEN {lf \in leaves : DotJoin(lf.path) = name}
        ELSE {lf \in leaves : lf.path[Len(lf.path)] = name}

\* the non-index attributes of the Filters instance that carry a value
ActiveFieldFilters ==
    IF filters.none THEN {}
    ELSE {filters.attrs[i] : i \in 1..Len(filters.attrs)}
            \ (IndexNames(schema) \cup
               {n \in {filters.attrs[i] : i \in 1..Len(filters.attrs)} :
                    DictGet(filters.vals, n, NULL) = NULL})

\* every filter attribute is bound to exactly one flat field path
FiltersWellBound ==
    filters.none \/
    \A i \in 1..Len(filters.attrs) :
        filters.attrs[i] \notin IndexNames(schema)
            => Cardinality(BoundPaths(schema, filters.attrs[i])) = 1

\* the value the flattener resolved for the flat path bound to a name
RecordValueAt(rec, name) ==
    LET lf == CHOOSE x \in BoundPaths(schema, name) : TRUE
    IN  _get_in(DictGet(rec, "entity", NULL), lf.path, lf.default)

\* whether a record passes every non-index filter that carries a value
PassesFieldFilters(rec) ==
    \A n \in ActiveFieldFilters :
        /\ RecordValueAt(rec, n) # NULL
        /\ Folded(RecordValueAt(rec, n)) = Folded(DictGet(filters.vals, n, NULL))

\* C5: after flattening, a record is kept iff for every non-index filter
\* attribute with a non-null value the case-folded, trimmed string forms of
\* the record's value at the bound flat path and of the filter value are
\* equal; a null filter value removes nothing.
C5_FieldFilters ==
    pc = "flatten" /\ FiltersWellBound =>
        out.entries = SelectSeq(out.all, PassesFieldFilters)

\* a field filter that matches only after trimming and case folding keeps
\* one record and drops others
C5_Witness ==
    /\ pc = "flatten"
    /\ FiltersWellBound
    /\ ActiveFieldFilters # {}
    /\ \E n \in ActiveFieldFilters, i \in 1..Len(out.entries) :
          /\ \E a \in 1..Len(filters.attrs) :
                /\ DictGet(filters.vals, filters.attrs[a], NULL) = NULL
          /\ pyStr(RecordValueAt(out.entries[i], n)) # pyStr(DictGet(filters.vals, n, NULL))
    /\ Len(out.entries) < Len(out.all)

---------------------------------------------------------------------------
(* C6 *)

\* C6: a single-field search returns at most max_results records, for every
\* natural number max_results, 0 included.
C6_SearchCappedAtMaxResults ==
    pc = "search" /\ out.ret.ok => Len(out.ret.results) <= max_results

---------------------------------------------------------------------------
(* C7 *)

\* the filtered flattener output the search call ran on
SearchEntries == _filtered_entries(schema, json_data, filters)

\* the entries of SearchEntries that satisfy the compiled query predicate
MatchingEntries ==
    LET pred == _build_query_predicate(query)
    IN  SelectSeq(SearchEntries, LAMBDA e : predicate(pred.ast, e, fields, FALSE))

\* C7: the flattener emits records in the document's key order at each index
\* level, depth-first; a single-field search returns, in that order, the
\* matching records of the filtered flattener output from the first one on,
\* with none skipped before a returned one.
C7_Ordering ==
    /\ pc = "flatten" =>
          \A i, j \in 1..Len(out.all) :
              i < j => LexLess(PosPath(json_data, IndexPath(out.all[i], schema)),
                               PosPath(json_data, IndexPath(out.all[j], schema)))
    /\ pc = "search" /\ out.ret.ok /\ pyStrip(query) # "" =>
          \E n \in 0..Len(MatchingEntries) :
              out.ret.results = [i \in 1..n |-> _reshape_entry(MatchingEntries[i], schema)]

\* a search that returned two records, the second of them after an entry
\* that does not match
C7_Witness ==
    /\ pc = "search"
    /\ out.ret.ok
    /\ Len(out.ret.results) = 2
    /\ Len(schema.indexes) = 2
    /\ \E i \in 1..Len(SearchEntries) :
          /\ _reshape_entry(SearchEntries[i], schema) \notin
                {out.ret.results[k] : k \in 1..2}
          /\ \E j \in (i + 1)..Len(SearchEntries) :
                _reshape_entry(SearchEntries[j], schema) = out.ret.results[2]

---------------------------------------------------------------------------
(* C8, C9, C10: the boolean query engine *)

Reserved == {"AND", "OR", "NOT"}
IsTerm(tok) == tok \notin Reserved \cup {"(", ")"}
EndsPrimary(tok) == IsTerm(tok) \/ tok = ")"
BeginsPrimary(tok) == IsTerm(tok) \/ tok \in {"(", "NOT"}

\* the entries the compiled predicates are compared on; field "t"
TestEntries == {<<KV("t", S(x))>> : x \in {"", "a", "b", "ab"}}

\* the value of the predicate compiled from a query string on an entry
Holds(p, e) == predicate(p.ast, e, "t", FALSE)

\* two query strings compile alike: both are rejected, or both compile and
\* the predicates agree on every entry
Agree(q1, q2) ==
    LET p1 == _build_query_predicate(q1)
        p2 == _build_query_predicate(q2)
    IN  /\ p1.ok = p2.ok
        /\ p1.ok => \A e \in TestEntries : Holds(p1, e) = Holds(p2, e)

\* the positions i of a token sequence where token i ends a primary and
\* token i+1 begins one
ImplicitAt(toks) ==
    {i \in 1..(Len(toks) - 1) : EndsPrimary(toks[i]) /\ BeginsPrimary(toks[i + 1])}

\* the token sequence written with AND between tokens i and i+1
WithAndAt(toks, i) == SubSeq(toks, 1, i) \o <<"AND">> \o SubSeq(toks, i + 1, Len(toks))

\* C8 (P4): where a token ends a primary and the next begins one, the query
\* compiles to the same predicate as the query written with AND between the
\* two; AND is inserted at these positions and at no other.
C8_ImplicitAnd ==
    pc = "build" =>
        LET toks == out.tokens
            at   == ImplicitAt(toks)
        IN  /\ \A i \in at : Agree(query, Join(WithAndAt(toks, i), " "))
            /\ Len(out.with_and) = Len(toks) + Cardinality(at)
            /\ \A i \in 1..Len(toks) :
                  LET k == i + Cardinality({j \in at : j < i})
                  IN  /\ out.with_and[k] = toks[i]
                      /\ (i - 1) \in at => out.with_and[k - 1] = "AND"

\* a query with an implicit AND before NOT, whose predicate holds on one
\* entry and not on another
C8_Witness ==
    /\ pc = "build"
    /\ out.pred.ok
    /\ \E i \in ImplicitAt(out.tokens) : out.tokens[i + 1] = "NOT"
    /\ \E e1, e2 \in TestEntries : Holds(out.pred, e1) /\ ~Holds(out.pred, e2)

\* the predicate compiled from a token sequence, as _build_query_predicate
\* compiles the tokens of a query
Compile(toks) == parse(_insert_implicit_and(toks))

\* two token sequences compile alike
AgreeTokens(t1, t2) ==
    LET p1 == Compile(t1)
        p2 == Compile(t2)
    IN  /\ p1.ok = p2.ok
        /\ p1.ok => \A e \in TestEntries : Holds(p1, e) = Holds(p2, e)

Paren(toks) == <<"(">> \o toks \o <<")">>

\* the query of the state as an operand: a term as it is, anything else in
\* parentheses
Operand == IF Len(out.tokens) = 1 THEN out.tokens ELSE Paren(out.tokens)

Operands == {<<"a">>, <<"b">>, <<"NOT", "b">>}

\* C9 (P3): on every record NOT NOT x = x and
\* x AND (y OR z) = (x AND y) OR (x AND z); NOT binds tighter than AND and
\* AND tighter than OR.
C9_BooleanLaws ==
    pc = "build" /\ out.pred.ok /\ out.tokens # <<>> =>
        LET x == Operand
        IN  /\ Compile(x).ok
            /\ AgreeTokens(<<"NOT", "NOT">> \o x, x)
            /\ \A y, z \in Operands : y # z =>
                  /\ AgreeTokens(x \o <<"AND">> \o Paren(y \o <<"OR">> \o z),
                                 Paren(x \o <<"AND">> \o y) \o <<"OR">>
                                    \o Paren(x \o <<"AND">> \o z))
                  /\ AgreeTokens(y \o <<"OR">> \o z \o <<"AND">> \o x,
                                 y \o <<"OR">> \o Paren(z \o <<"AND">> \o x))
                  /\ AgreeTokens(x \o <<"AND">> \o y \o <<"OR">> \o z,
                                 Paren(x \o <<"AND">> \o y) \o <<"OR">> \o z)
                  /\ AgreeTokens(<<"NOT">> \o x \o <<"AND">> \o y,
                                 Paren(<<"NOT">> \o x) \o <<"AND">> \o y)
                  /\ AgreeTokens(<<"NOT">> \o x \o <<"OR">> \o y,
                                 Paren(<<"NOT">> \o x) \o <<"OR">> \o y)

\* a compiled query x for which the precedence decides the result:
\* a OR b AND x differs from (a OR b) AND x, and NOT x AND b from
\* NOT (x AND b), on some entry
C9_Witness ==
    /\ pc = "build"
    /\ out.pred.ok
    /\ Len(out.tokens) > 1
    /\ ~AgreeTokens(<<"a", "OR", "b", "AND">> \o Operand,
                    Paren(<<"a", "OR", "b">>) \o <<"AND">> \o Operand)
    /\ ~AgreeTokens(<<"NOT">> \o Operand \o <<"AND", "b">>,
                    <<"NOT">> \o Paren(Operand \o <<"AND", "b">>))

\* the maximal runs of characters that are neither whitespace nor a
\* parenthesis, and the parentheses, in the order they occur
RECURSIVE MaximalRuns(_)
MaximalRuns(s) ==
    LET stop == {i \in 1..Len(s) : CharAt(s, i) \in Whitespace \cup {"(", ")"}}
        n    == IF stop = {} THEN Len(s) ELSE (CHOOSE i \in stop : \A j \in stop : i <= j) - 1
    IN  IF s = "" THEN <<>>
        ELSE IF Head(s) \in Whitespace THEN MaximalRuns(Tail(s))
        ELSE IF Head(s) \in {"(", ")"} THEN <<Head(s)>> \o MaximalRuns(Tail(s))
        ELSE <<SubSeq(s, 1, n)>> \o MaximalRuns(SubSeq(s, n + 1, Len(s)))

\* C10: every maximal run of non-whitespace, non-parenthesis characters is
\* one token: an operator when it is exactly AND, OR or NOT, a TERM
\* otherwise, also when it begins with the letters of a reserved word.
C10_TokensAreMaximalRuns ==
    pc = "build" => out.tokens = MaximalRuns(query)

---------------------------------------------------------------------------
(* C11: malformed boolean queries *)

\* the nesting depth after each token of a token sequence
RECURSIVE Depths(_, _)
Depths(toks, d) ==
    IF toks = <<>> THEN <<>>
    ELSE LET d1 == IF Head(toks) = "(" THEN d + 1
                   ELSE IF Head(toks) = ")" THEN d - 1 ELSE d
         IN  <<d1>> \o Depths(Tail(toks), d1)

Balanced(toks) ==
    /\ \A i \in 1..Len(toks) : Depths(toks, 0)[i] >= 0
    /\ toks # <<>> => Depths(toks, 0)[Len(toks)] = 0

\* a binary operator, NOT or `(` is followed by the beginning of a primary
\* (so none of them is trailing, and no operator or `)` stands where a
\* primary is expected); a TERM or `)` is followed by a binary operator or
\* `)`, or ends the query
Sequenced(toks) ==
    /\ toks # <<>>
    /\ BeginsPrimary(toks[1])
    /\ EndsPrimary(toks[Len(toks)])
    /\ \A i \in 1..(Len(toks) - 1) :
          IF EndsPrimary(toks[i]) THEN toks[i + 1] \in {"AND", "OR", ")"}
          ELSE BeginsPrimary(toks[i + 1])

\* the token sequence, with its implicit ANDs written, is an expr of the
\* grammar
WellFormed(toks) == Balanced(toks) /\ Sequenced(toks)

\* C11: a query whose tokens are not a well-formed expression (unbalanced
\* parentheses, a binary operator or `)` where a primary is expected, a
\* trailing NOT/AND/OR, input after a complete expression) is rejected with
\* an error: no predicate is compiled, and search returns no result list.
C11_MalformedRejected ==
    pc = "build" /\ out.with_and # <<>> /\ ~WellFormed(out.with_and) =>
        /\ ~out.pred.ok
        /\ ~search(Books, fields, query, schema, filters, MaxResults, FALSE).ok

\* a rejected query of each kind: input after a complete expression, an
\* unclosed parenthesis, and a trailing operator
C11_Witness ==
    /\ pc = "build"
    /\ ~out.pred.ok
    /\ \/ (Sequenced(out.with_and) /\ ~Balanced(out.with_and)
           /\ \E i \in 1..Len(out.with_and) : Depths(out.with_and, 0)[i] < 0)
       \/ (Sequenced(out.with_and) /\ ~Balanced(out.with_and)
           /\ \A i \in 1..Len(out.with_and) : Depths(out.with_and, 0)[i] >= 0)
       \/ (Balanced(out.with_and) /\ out.with_and[Len(out.with_and)] \in Reserved)

---------------------------------------------------------------------------
(* C12, C13: term matching *)

\* the targets of a field value: the elements of a list, the value itself,
\* none for null (and for a field the entry lacks)
TargetsOf(e, f) ==
    IF ~DictHas(e, f) \/ DictGet(e, f, NULL) = NULL THEN <<>>
    ELSE IF DictGet(e, f, NULL).k = "list" THEN DictGet(e, f, NULL).l
    ELSE <<DictGet(e, f, NULL)>>

\* string a occurs in string b
OccursIn(a, b) == \E i \in 0..Len(b), j \in 0..Len(b) : i <= j /\ SubSeq(b, i + 1, j) = a

\* C12: non-fuzzy, after trimming and case-folding the term and every
\* target, a term matches iff it equals some target (exact) or is a
\* substring of some target (not exact); the targets are the elements of a
\* list value, the single scalar value, or none for null (a null element
\* of a list is no target); an empty target list matches no term.
C12_TermMatching ==
    pc = "match" =>
        LET targets == TargetsOf(args.e, fields)
            strs    == {Folded(targets[i]) :
                           i \in {j \in 1..Len(targets) : targets[j] # NULL}}
        IN  /\ out.targets = targets
            /\ args.exact => (out.match <=> Folded(S(args.term)) \in strs)
            /\ ~args.exact =>
                  (out.match <=> \E x \in strs : OccursIn(Folded(S(args.term)), x))
            /\ targets = <<>> => ~out.match

\* a term that matches an element of a list only after trimming and
\* folding, as a substring and not as a whole
C12_Witness ==
    /\ pc = "match"
    /\ ~args.exact
    /\ out.match
    /\ Len(out.targets) = 2
    /\ \A i \in 1..Len(out.targets) :
          /\ out.targets[i] # NULL => pyStr(out.targets[i]) # args.term
          /\ out.targets[i] # NULL => ~OccursIn(args.term, pyStr(out.targets[i]))

\* clamp(t, 0, 100)
Clamp(t) == IF t < 0 THEN 0 ELSE IF t > 100 THEN 100 ELSE t

---------------------------------------------------------------------------
(* C14: the schema registry *)

\* C14: registering a schema whose root is already in the registry fails
\* and leaves the registry unchanged: a root, once registered, keeps the
\* schema first registered for it through every later register call.
C14_FirstRegistrationKept ==
    [][\A i \in 1..Len(SCHEMA_REGISTRY) :
          DictGet(SCHEMA_REGISTRY', SCHEMA_REGISTRY[i].key, NULL) = SCHEMA_REGISTRY[i].val]_vars

---------------------------------------------------------------------------
(* C15: defaults in declared models *)

\* the class assigns a value to one of its annotated attributes
HasDefault(c) == \E i \in 1..Len(c.annotations) : DictHas(c.dict, c.annotations[i])

\* every annotated name is an index, a flat field or the last segment of
\* exactly one flat field of the schema
Bindable(sch, names) ==
    LET flat == LeafPaths(sch.fields, <<>>)
        keys == {DictKeys(_field_specs(sch.fields, <<>>, <<>>))[i] :
                    i \in 1..Len(DictKeys(_field_specs(sch.fields, <<>>, <<>>)))}
    IN  \A i \in 1..Len(names) :
            \/ names[i] \in IndexNames(sch)
            \/ names[i] \in keys

C15_IndexesRejected ==
    /\ pc = "declared"
    /\ out.op = "indexes"
    /\ cls.base = "Indexes"
    /\ HasDefault(cls)
    /\ ~out.ret.ok

---------------------------------------------------------------------------
(* C16: INNER JOIN and JOIN *)

\* s[i .. i+Len(w)-1] is the word w, whatever the case of its letters
WordAt(s, i, w) == i >= 1 /\ i + Len(w) - 1 <= Len(s)
                   /\ pyLower(SubSeq(s, i, i + Len(w) - 1)) = w

\* where the first JOIN of the query starts, 0 if it has none
JoinPos(q) ==
    IF \E i \in 1..Len(q) : WordAt(q, i, "join")
    THEN CHOOSE i \in 1..Len(q) :
            WordAt(q, i, "join") /\ \A j \in 1..(i - 1) : ~WordAt(q, j, "join")
    ELSE 0

\* where the INNER of that JOIN starts, 0 if it is a plain JOIN
InnerPos(q) ==
    LET i == JoinPos(q)
        ok(j) == /\ WordAt(q, j, "inner")
                 /\ j + 5 < i
                 /\ \A k \in (j + 5)..(i - 1) : CharAt(q, k) \in Whitespace
    IN  IF i > 0 /\ \E j \in 1..i : ok(j) THEN CHOOSE j \in 1..i : ok(j) ELSE 0

\* the query with INNER JOIN replaced by JOIN, or JOIN by INNER JOIN
SwapJoin(q) ==
    IF JoinPos(q) = 0 THEN q
    ELSE IF InnerPos(q) > 0
    THEN SubSeq(q, 1, InnerPos(q) - 1) \o "JOIN" \o SubSeq(q, JoinPos(q) + 4, Len(q))
    ELSE SubSeq(q, 1, JoinPos(q) - 1) \o "INNER JOIN" \o SubSeq(q, JoinPos(q) + 4, Len(q))

\* the query has an ON
HasOn(q) == \E i \in 1..Len(q) : WordAt(q, i, " on ")

\* C16: for any SQL join query, replacing INNER JOIN by JOIN (or the
\* reverse) yields an identical result list (or the same failure), and both
\* forms fail with the join-syntax error when no ON clause is given.
C16_JoinForms ==
    pc = "sql" /\ JoinPos(query) > 0 =>
        /\ out.ret = sql(SwapJoin(query), json_data, SCHEMA_REGISTRY)
        /\ ~HasOn(query) =>
              /\ ~out.ret.ok
              /\ out.ret.err = "JOIN without ON clause is not supported"

\* an INNER JOIN query that returned rows, as its JOIN form does
C16_Witness ==
    /\ pc = "sql"
    /\ InnerPos(query) > 0
    /\ SwapJoin(query) # query
    /\ out.ret.ok
    /\ out.ret.results # <<>>

\* a JOIN and an INNER JOIN without ON have failed
C16_NoOnWitness ==
    /\ pc = "sql"
    /\ JoinPos(query) > 0
    /\ ~HasOn(query)
    /\ ~out.ret.ok

---------------------------------------------------------------------------
(* C17: CROSS JOIN *)

\* the cross joins of b and m with a select list both roots allow
CrossJoinQueries ==
    {"SELECT " \o s \o " FROM b CROSS JOIN m" : s \in {"*", "t", "b.t, m.t"}}

\* both roots of the cross join are registered
BothRegistered == DictHas(SCHEMA_REGISTRY, "b") /\ DictHas(SCHEMA_REGISTRY, "m")

\* |flatten(root)|: the entries of the root registered under that name
FlattenCount(root) ==
    Len(_all_entries(DictGet(SCHEMA_REGISTRY, root, NULL), json_data, NoFilters))

\* C17: FROM a CROSS JOIN b without an ON clause is accepted and matches
\* every pair: with no WHERE clause it returns exactly
\* |flatten(a)| x |flatten(b)| rows.
C17_CrossJoinAllPairs ==
    pc = "sql" /\ query \in CrossJoinQueries /\ BothRegistered =>
        /\ out.ret.ok
        /\ Len(out.ret.results) = FlattenCount("b") * FlattenCount("m")

---------------------------------------------------------------------------
(* C18: unknown references in WHERE *)

\* the text after WHERE, "" if the query has none
WherePart(q) ==
    IF \E i \in 1..Len(q) : WordAt(q, i, " where ")
    THEN LET i == CHOOSE j \in 1..Len(q) : WordAt(q, j, " where ")
         IN  SubSeq(q, i + 7, Len(q))
    ELSE ""

\* the identifiers of SqlWheres that name no index and no field of any
\* registered schema
UnknownReferences == {"zz = 1", "indexes.zz = 1", "m.zz = 1"}

\* the query is one sql can run up to its WHERE clause
Runnable(q) == sql(SubSeq(q, 1, Len(q) - Len(WherePart(q)) - 7), json_data, SCHEMA_REGISTRY).ok

\* C18: a WHERE condition whose identifier resolves to no index or field
\* (unknown primary-root field, unknown index after indexes., unknown
\* joined-root reference) fails; no result list is returned for it.
C18_UnknownReferenceFails ==
    pc = "sql" /\ WherePart(query) \in UnknownReferences /\ Runnable(query) =>
        ~out.ret.ok

---------------------------------------------------------------------------
(* C19: operators the WHERE dialect does not have *)

\* the WHERE clause has a comparison other than =
HasNonEquality(w) == \E i \in 1..Len(w) : CharAt(w, i) \in {"!", "<", ">"}

\* C19: a WHERE clause with a character or operator outside the token set
\* = ( ) AND OR, identifiers and literals, such as !=, < or >, fails and is
\* never evaluated as some other condition.
C19_NonEqualityFails ==
    pc = "sql" /\ HasNonEquality(WherePart(query)) /\ Runnable(query) =>
        ~out.ret.ok

---------------------------------------------------------------------------
(* C20: projection *)

\* where FROM starts in the query
FromPos(q) == CHOOSE i \in 1..Len(q) : WordAt(q, i, " from ")

\* the names of the SELECT list, as written
SelectList(q) == StripAll(Split(SubSeq(q, 8, FromPos(q) - 1), ","))

\* the primary root and the joined root of the query (one letter each)
PrimaryRoot(q) == SubSeq(q, FromPos(q) + 6, FromPos(q) + 6)
JoinedRoot(q) == SubSeq(q, JoinPos(q) + 5, JoinPos(q) + 5)

\* the name a selected name is stored under: the primary-root prefix is
\* stripped, anything else is kept
StoredName(name, root) ==
    IF Len(name) > Len(root) + 1 /\ SubSeq(name, 1, Len(root) + 1) = root \o "."
    THEN SubSeq(name, Len(root) + 2, Len(name))
    ELSE name

\* the stored names of the SELECT list, in order
StoredNames(q) ==
    [i \in 1..Len(SelectList(q)) |-> StoredName(SelectList(q)[i], PrimaryRoot(q))]

\* the star expansion of the query: the field names of the primary root,
\* then those of the joined root under its prefix
FieldNamesOf(root) ==
    DictKeys(_field_specs(DictGet(SCHEMA_REGISTRY, root, NULL).fields, <<>>, <<>>))
StarExpansion(q) ==
    FieldNamesOf(PrimaryRoot(q))
    \o (IF JoinPos(q) > 0
        THEN [i \in 1..Len(FieldNamesOf(JoinedRoot(q))) |->
                 JoinedRoot(q) \o "." \o FieldNamesOf(JoinedRoot(q))[i]]
        ELSE <<>>)

KeySet(d) == {d[i].key : i \in 1..Len(d)}
Range(s) == {s[i] : i \in 1..Len(s)}

\* the record is the projection the claim describes
Projected(rec, q) ==
    LET left == DictGet(SCHEMA_REGISTRY, PrimaryRoot(q), NULL)
        left_entries == _all_entries(left, json_data, NoFilters)
    IN  /\ KeySet(rec.fields) = Range(StoredNames(q))
        /\ KeySet(rec.indexes) \subseteq Range(left.indexes)
        /\ \E i \in 1..Len(left_entries) :
              rec.indexes = _reshape_entry(left_entries[i], left).indexes

---------------------------------------------------------------------------
(* C21: join execution *)

\* the ON clause of the query, as written
OnClause(q) ==
    LET i == CHOOSE j \in 1..Len(q) : WordAt(q, j, " on ")
        rest == SubSeq(q, i + 4, Len(q))
    IN  IF WherePart(q) = "" THEN rest
        ELSE SubSeq(rest, 1, Len(rest) - Len(WherePart(q)) - 7)

\* the schemas of the two operands of the join
LeftSchema(q) == DictGet(SCHEMA_REGISTRY, PrimaryRoot(q), NULL)
RightSchema(q) == DictGet(SCHEMA_REGISTRY, JoinedRoot(q), NULL)

\* the ON equalities of the query: pairs of sides {root, is_index, name}
OnEqualities(q) ==
    _parse_join_on(OnClause(q), PrimaryRoot(q), JoinedRoot(q),
                   LeftSchema(q), RightSchema(q)).conditions

\* the record a side of an ON equality refers to: the operand with the
\* side's root; when both operands have the same root, the left operand for
\* the first side and the right operand for the second
OperandOf(side, pos, l, r, q) ==
    IF PrimaryRoot(q) # JoinedRoot(q)
    THEN (IF side.root = PrimaryRoot(q) THEN l ELSE r)
    ELSE (IF pos = 1 THEN l ELSE r)

\* every ON equality holds of the pair (l, r)
OnHolds(l, r, q) ==
    \A i \in 1..Len(OnEqualities(q)) :
        LET c == OnEqualities(q)[i]
        IN  pyEqAny(DictGet(OperandOf(c[1], 1, l, r, q), c[1].name, NULL),
                    DictGet(OperandOf(c[2], 2, l, r, q), c[2].name, NULL))

\* the combined record: the left record verbatim, then each right key under
\* <right-root>.indexes.<k> or <right-root>.<k>
Combined(l, r, q) ==
    l \o [i \in 1..Len(r) |->
            KV(IF r[i].key \in Range(RightSchema(q).indexes)
               THEN JoinedRoot(q) \o ".indexes." \o r[i].key
               ELSE JoinedRoot(q) \o "." \o r[i].key,
               r[i].val)]

\* the pairs (l, r) in left-record-major order
JoinPairs(q) ==
    LET ls == _all_entries(LeftSchema(q), json_data, NoFilters)
        rs == _all_entries(RightSchema(q), json_data, NoFilters)
    IN  [k \in 1..(Len(ls) * Len(rs)) |->
            [l |-> ls[((k - 1) \div Len(rs)) + 1], r |-> rs[((k - 1) % Len(rs)) + 1]]]

\* the combined records of the pairs the ON equalities and the WHERE
\* predicate keep
JoinRows(q) ==
    LET where == _build_where_predicate(WherePart(q), LeftSchema(q), PrimaryRoot(q))
        kept == SelectSeq(JoinPairs(q),
                    LAMBDA p : /\ OnHolds(p.l, p.r, q)
                               /\ where_pred(where.ast, Combined(p.l, p.r, q)))
    IN  [k \in 1..Len(kept) |-> Combined(kept[k].l, kept[k].r, q)]

\* the result rows are the given combined records, in their order
RowsAre(rows, q) ==
    /\ Len(out.ret.results) = Len(rows)
    /\ \A k \in 1..Len(rows) :
          /\ out.ret.results[k].indexes
                = SelectSeq(rows[k], LAMBDA kv : kv.key \in Range(LeftSchema(q).indexes))
          /\ SelectList(q) = <<"*">> =>
                out.ret.results[k].fields
                   = SelectSeq(rows[k], LAMBDA kv : kv.key \notin Range(LeftSchema(q).indexes))

\* C21: for a join with an ON clause, the result rows correspond exactly to
\* the pairs (l, r) for which every ON equality holds and the WHERE
\* predicate holds on the combined record, in left-record-major order; the
\* combined record keeps every left key and value and stores each right key
\* under <right-root>.indexes.<k> or <right-root>.<k>.
C21_JoinRows ==
    pc = "sql" /\ out.ret.ok /\ JoinPos(query) > 0 => RowsAre(JoinRows(query), query)

\* the same for a join of two different roots
C21_JoinRowsOfTwoRoots ==
    pc = "sql" /\ out.ret.ok /\ JoinPos(query) > 0
               /\ PrimaryRoot(query) # JoinedRoot(query) =>
        RowsAre(JoinRows(query), query)

---------------------------------------------------------------------------
(* C30: the operands of an ON equality *)

\* the value a result row of SELECT * holds for a side of an ON equality:
\* the left operand's attribute under its own name, the right operand's
\* under the joined root's prefix
SideValue(side, pos, rec, q) ==
    IF OperandOf(side, pos, "l", "r", q) = "l"
    THEN DictGet(rec.indexes \o rec.fields, side.name, NULL)
    ELSE DictGet(rec.fields,
                 JoinedRoot(q) \o (IF side.is_index THEN ".indexes." ELSE ".")
                               \o side.name,
                 NULL)

\* C30: each side of an ON equality is evaluated against the record of the
\* join operand it refers to, so a pair (l, r) is kept only if the compared
\* attribute values of l and r agree, also when a root is joined with
\* itself.
C30_OnComparesOperands ==
    pc = "sql" /\ out.ret.ok /\ JoinPos(query) > 0 /\ SelectList(query) = <<"*">> =>
        \A k \in 1..Len(out.ret.results) :
            \A i \in 1..Len(OnEqualities(query)) :
                pyEqAny(SideValue(OnEqualities(query)[i][1], 1, out.ret.results[k], query),
                        SideValue(OnEqualities(query)[i][2], 2, out.ret.results[k], query))

---------------------------------------------------------------------------
(* C22: unflattening the rows of a join *)

\* what a path of keys leads to in a nested document
Missing == [k |-> "missing"]
RECURSIVE At(_, _)
At(v, path) ==
    IF path = <<>> THEN v
    ELSE IF v.k # "map" \/ ~DictHas(v.m, Head(path)) THEN Missing
    ELSE At(DictGet(v.m, Head(path), NULL), Tail(path))

\* the join queries with an ON clause over two different roots
JoinOfTwoRoots(q) ==
    JoinPos(q) > 0 /\ HasOn(q) /\ PrimaryRoot(q) # JoinedRoot(q)

\* a name of the SELECT list that is a field of the joined root
IsRightField(name, q) ==
    /\ StartsWith(name, JoinedRoot(q) \o ".")
    /\ ~StartsWith(name, JoinedRoot(q) \o ".indexes.")

\* the joined record's own index values, in its schema's index order
RightIndexPath(row, q) ==
    [j \in 1..Len(RightSchema(q).indexes) |->
        pyStr(DictGet(row, JoinedRoot(q) \o ".indexes." \o RightSchema(q).indexes[j],
                      NULL))]

\* C22 (first part): each SQL result record carries _all_fields.
C22_AllFieldsCarried ==
    pc = "sql" /\ out.ret.ok =>
        \A k \in 1..Len(out.ret.results) : "_all_fields" \in DOMAIN out.ret.results[k]

\* C22: for every join query that selects right-root fields, unflat(sql(q))
\* places those fields under result[right-root][right index values in that
\* root's schema order], keyed by the joined record's own index values, even
\* when no <right-root>.indexes.<idx> name appears in the SELECT list.
C22_JoinedFieldsUnderIndexes ==
    pc = "unflat" /\ JoinOfTwoRoots(query) =>
        \A k \in 1..Len(JoinRows(query)) :
            \A i \in 1..Len(SelectList(query)) :
                IsRightField(SelectList(query)[i], query) =>
                    At(out.ret, <<JoinedRoot(query)>>
                                \o RightIndexPath(JoinRows(query)[k], query)
                                \o Split(Drop(SelectList(query)[i], 2), "."))
                      = DictGet(JoinRows(query)[k], SelectList(query)[i], NULL)

\* the same for the queries that select the joined root's index too
C22_WithSelectedIndexes ==
    pc = "unflat" /\ JoinOfTwoRoots(query)
                  /\ (\E j \in 1..Len(SelectList(query)) :
                        StartsWith(SelectList(query)[j], JoinedRoot(query) \o ".indexes.")) =>
        \A k \in 1..Len(JoinRows(query)) :
            \A i \in 1..Len(SelectList(query)) :
                IsRightField(SelectList(query)[i], query) =>
                    At(out.ret, <<JoinedRoot(query)>>
                                \o RightIndexPath(JoinRows(query)[k], query)
                                \o Split(Drop(SelectList(query)[i], 2), "."))
                      = DictGet(JoinRows(query)[k], SelectList(query)[i], NULL)

---------------------------------------------------------------------------
(* C23: the round trip flatten, unflat *)

\* an entity restricted to the declared fields, nested as declared, each
\* with the value the flattener gives it
RECURSIVE RestrictEntity(_, _, _)
RestrictEntity(entity, attrs, prefix) ==
    [i \in 1..Len(attrs) |->
        KV(attrs[i].name,
           IF attrs[i].group
           THEN M(RestrictEntity(entity, attrs[i].sub, Append(prefix, attrs[i].name)))
           ELSE _get_in(entity, Append(prefix, attrs[i].name), attrs[i].default))]

\* the collection under a root restricted to its entities: the keys of the
\* index levels that lead to an entity, and the restricted entities
RECURSIVE HasEntity(_, _)
HasEntity(node, depth) ==
    /\ IsDict(node)
    /\ depth > 0 => \E i \in 1..Len(node.m) : HasEntity(node.m[i].val, depth - 1)
RECURSIVE RestrictLevel(_, _, _)
RestrictLevel(node, depth, sch) ==
    IF depth = 0 THEN M(RestrictEntity(node, sch.fields, <<>>))
    ELSE LET kept == SelectSeq(node.m, LAMBDA kv : HasEntity(kv.val, depth - 1))
         IN  M([i \in 1..Len(kept) |->
                  KV(kept[i].key, RestrictLevel(kept[i].val, depth - 1, sch))])

\* D restricted to the root of the schema and to its declared fields
Restricted(data, sch) ==
    IF DictHas(data.m, sch.root)
       /\ HasEntity(DictGet(data.m, sch.root, NULL), Len(sch.indexes))
       /\ RestrictLevel(DictGet(data.m, sch.root, NULL), Len(sch.indexes), sch).m # <<>>
    THEN M(<<KV(sch.root,
                RestrictLevel(DictGet(data.m, sch.root, NULL), Len(sch.indexes), sch))>>)
    ELSE M(<<>>)

\* C23 (P6): for any registered schema S and document D, unflattening the
\* canonical records of flatten(S, D, no filters) reproduces D restricted to
\* root S.root and to S's declared flat field set: the same index keys at
\* every level and under each entity exactly the declared fields, nested as
\* in D, with their values, and no additional keys.
C23_RoundTrip ==
    pc = "unflat" /\ out.op = "roundtrip" => out.ret = Restricted(json_data, schema)

---------------------------------------------------------------------------
(* C24: index order and merging in unflat *)

\* deep merge of two mappings: matching mapping keys recurse, otherwise the
\* right side overwrites
RECURSIVE Merged(_, _)
Merged(a, b) ==
    IF b = <<>> THEN a
    ELSE IF DictHas(a, Head(b).key) /\ IsDict(DictGet(a, Head(b).key, NULL))
            /\ IsDict(Head(b).val)
    THEN Merged(DictSet(a, Head(b).key,
                        M(Merged(DictGet(a, Head(b).key, NULL).m, Head(b).val.m))),
                Tail(b))
    ELSE Merged(DictSet(a, Head(b).key, Head(b).val), Tail(b))

\* the mapping under a key, empty when there is none
Under(d, key) ==
    IF DictHas(d, key) /\ IsDict(DictGet(d, key, NULL)) THEN DictGet(d, key, NULL).m
    ELSE <<>>

\* a mapping with a mapping merged into the node a path of keys leads to
RECURSIVE MergedAt(_, _, _)
MergedAt(d, path, nested) ==
    IF path = <<>> THEN Merged(d, nested)
    ELSE DictSet(d, Head(path), M(MergedAt(Under(d, Head(path)), Tail(path), nested)))

\* dotted-path keys expanded to nested mappings
RECURSIVE Expanded(_, _)
Expanded(flat, acc) ==
    IF flat = <<>> THEN acc
    ELSE Expanded(Tail(flat),
                  MergedAt(acc,
                           SubSeq(Split(Head(flat).key, "."), 1,
                                  Len(Split(Head(flat).key, ".")) - 1),
                           <<KV(Split(Head(flat).key, ".")[Len(Split(Head(flat).key, "."))],
                                Head(flat).val)>>))

\* the index path of a record: the string forms of its index values in the
\* order of the schema registered for its root
RecordPath(rec) ==
    [j \in 1..Len(DictGet(SCHEMA_REGISTRY, rec.root, NULL).indexes) |->
        pyStr(DictGet(rec.indexes,
                      DictGet(SCHEMA_REGISTRY, rec.root, NULL).indexes[j], NULL))]

\* the records of a registered root that have all its indexes and no field
\* named under a registered root
Indexed(rec) ==
    /\ DictHas(SCHEMA_REGISTRY, rec.root)
    /\ Range(DictGet(SCHEMA_REGISTRY, rec.root, NULL).indexes) \subseteq KeySet(rec.indexes)
    /\ \A i \in 1..Len(rec.fields) :
          ~DictHas(SCHEMA_REGISTRY, Split(rec.fields[i].key, ".")[1])

\* what the records of a root nest to: every record merged, in order, into
\* the node its index path leads to
RECURSIVE NestedUnder(_, _, _)
NestedUnder(records, root, acc) ==
    IF records = <<>> THEN acc
    ELSE IF Head(records).root # root THEN NestedUnder(Tail(records), root, acc)
    ELSE NestedUnder(Tail(records), root,
                     MergedAt(acc, RecordPath(Head(records)),
                              Expanded(Head(records).fields, <<>>)))

\* C24 (I2): when a record's root is registered, unflat nests the record
\* under result[root] by descending through the index values in the schema's
\* index order (string form of each value), irrespective of the insertion
\* order of the record's indexes map; records with the same index path are
\* deep-merged into the same node and records with different index paths
\* never share a leaf node.
C24_NestedInSchemaOrder ==
    pc = "unflat" /\ out.arg.k = "list"
                  /\ (\A i \in 1..Len(out.arg.l) : Indexed(out.arg.l[i])) =>
        \A i \in 1..Len(out.arg.l) :
            At(out.ret, <<out.arg.l[i].root>>)
              = M(NestedUnder(out.arg.l, out.arg.l[i].root, <<>>))

\* two records of the same index path, their indexes inserted in opposite
\* orders, are merged in one node, and two records of different index paths
\* are in two nodes
C24_Witness ==
    /\ pc = "unflat"
    /\ out.op = "unflat"
    /\ out.arg.k = "list"
    /\ Len(out.arg.l) = 2
    /\ Indexed(out.arg.l[1]) /\ Indexed(out.arg.l[2])
    /\ DictKeys(out.arg.l[1].indexes) = <<"site", "id">>
    /\ DictKeys(out.arg.l[2].indexes) = <<"id", "site">>
    /\ At(out.ret, <<"lib", "s", "1">>) = M(<<KV("t", S("A")), KV("p", M(<<KV("c", S("B"))>>))>>)

C24_WitnessTwoPaths ==
    /\ pc = "unflat"
    /\ out.op = "unflat"
    /\ out.arg.k = "list"
    /\ Len(out.arg.l) = 2
    /\ At(out.ret, <<"lib", "s", "1">>) = M(<<KV("t", S("A"))>>)
    /\ At(out.ret, <<"lib", "1", "s">>) = M(<<KV("t", S("C"))>>)

---------------------------------------------------------------------------
(* C25: inputs are not mutated *)

\* C25: inputs are never mutated: after any sequence of flatten, search, sql
\* and unflat calls, the document passed in and every record list passed to
\* unflat are equal to their values before the calls, including when unflat
\* deep-merges several records into the same node.
C25_InputsNotMutated ==
    pc = "unflat" => results = out.arg

---------------------------------------------------------------------------
(* C26: the keys of a record *)

\* the flat field paths of the schema, dotted
FlatPathNames(sch) == {DotJoin(p.path) : p \in LeafPaths(sch.fields, <<>>)}

\* the names the flattener stores the fields under
FieldKeyNames(sch) == Range(DictKeys(_field_specs(sch.fields, <<>>, <<>>)))

\* C26: every key of a record emitted by the flattener is either an index
\* name of the schema or a flat field path of the schema; consequently the
\* fields map of a canonical search result or of a SELECT * result contains
\* only flat field paths (plus joined-root keys for joins) and no other key.
C26_RecordKeys ==
    /\ pc = "flatten" =>
          \A i \in 1..Len(out.all) :
              KeySet(out.all[i]) \subseteq Range(schema.indexes) \cup FlatPathNames(schema)
    /\ pc = "search" /\ out.ret.ok =>
          \A i \in 1..Len(out.ret.results) :
              KeySet(out.ret.results[i].fields) \subseteq FlatPathNames(schema)

\* what the keys of an emitted record are: the index names, the names the
\* fields are stored under, and "entity"
C26_RecordKeysAndEntity ==
    pc = "flatten" =>
        \A i \in 1..Len(out.all) :
            KeySet(out.all[i])
              = Range(schema.indexes) \cup FieldKeyNames(schema) \cup {"entity"}

---------------------------------------------------------------------------
(* C27: field value resolution *)

\* C27 as claimed: for a flat path s1..sk with default d, the field takes d
\* iff some step is missing or some intermediate value is not a mapping;
\* otherwise it takes the terminal value found in the entity, whatever that
\* value is (including null when d is not null).
C27_DefaultIffUnreachable ==
    pc = "get_in" =>
        out.value = IF Present(args.entity, args.path)
                    THEN ValueAt(args.entity, args.path)
                    ELSE args.default

\* C27 as amended: the field takes d when some step is missing, some
\* intermediate value is not a mapping, or the terminal value is null;
\* otherwise it takes the terminal value.
C27_DefaultIffUnreachableOrNull ==
    pc = "get_in" =>
        out.value = IF Present(args.entity, args.path)
                       /\ ValueAt(args.entity, args.path) # NULL
                    THEN ValueAt(args.entity, args.path)
                    ELSE args.default

\* a path that leads through mappings to null, with a default that is not
\* null, and the default taken
C27_Witness ==
    /\ pc = "get_in"
    /\ Len(args.path) = 2
    /\ Present(args.entity, args.path)
    /\ ValueAt(args.entity, args.path) = NULL
    /\ args.default = S("?")
    /\ out.value = S("?")

---------------------------------------------------------------------------
(* C28: index values of a record *)

\* the index values are the document keys traversed, level by level, from
\* where the flattener starts
KeysTraversed(index_values) ==
    index_values \in PathsFrom(json_data, Len(schema.indexes))

\* C28: for every record emitted by the flattener, the value stored under
\* each index name is the document key traversed at that index depth, also
\* when the schema declares a flat field whose record key is the same string
\* as an index name; the canonical indexes map built from it therefore
\* always holds document keys.
C28_IndexValuesAreKeys ==
    /\ pc = "flatten" =>
          \A i \in 1..Len(out.all) : KeysTraversed(IndexPath(out.all[i], schema))
    /\ pc = "search" /\ out.ret.ok =>
          \A i \in 1..Len(out.ret.results) :
              KeysTraversed(IndexPath(out.ret.results[i].indexes, schema))

---------------------------------------------------------------------------
(* C29: the parsers advance *)

\* a parse method started at position p ends at a position that is not
\* before p and not beyond the tokens, and beyond p unless it raised
Advances(r, p, tokens) ==
    /\ r.pos >= p
    /\ r.pos <= Len(tokens)
    /\ r.ok => r.pos > p

\* every parse method of _QueryParser advances from position p
QueryParserAdvances(tokens, p) ==
    /\ Advances(_parse_expr(tokens, p), p, tokens)
    /\ Advances(_parse_term(tokens, p), p, tokens)
    /\ Advances(_parse_factor(tokens, p), p, tokens)
    /\ Advances(_parse_primary(tokens, p), p, tokens)

\* every parse method of _WhereParser advances from position p
WhereParserAdvances(tokens, p) ==
    /\ Advances(_WhereParser_parse_expr(tokens, p, Range(schema.indexes), schema.root),
                p, tokens)
    /\ Advances(_WhereParser_parse_term(tokens, p, Range(schema.indexes), schema.root),
                p, tokens)
    /\ Advances(_WhereParser_parse_factor(tokens, p, Range(schema.indexes), schema.root),
                p, tokens)
    /\ Advances(_WhereParser_parse_condition(tokens, p, Range(schema.indexes),
                                             schema.root),
                p, tokens)

\* C29: parsing terminates on every finite token sequence, for both the
\* boolean query parser and the WHERE parser: the parser position never
\* decreases and never exceeds the number of tokens, every recursive call or
\* loop iteration either consumes at least one token or raises an error, and
\* parse() ends either with a predicate and position = token count or with
\* an error.
C29_ParsersAdvance ==
    pc = "parse" =>
        /\ \A p \in 0..Len(args.tokens) :
              /\ QueryParserAdvances(args.tokens, p)
              /\ WhereParserAdvances(args.tokens, p)
        /\ out.ret.ok => out.ret.pos = Len(args.tokens)
        /\ ~out.ret.ok => out.ret.pos \in 0..Len(args.tokens)

\* a query with a NOT and a parenthesised group parsed to its end
C29_Witness ==
    /\ pc = "parse"
    /\ out.op = "query"
    /\ args.tokens = <<"NOT", "(", "a", ")">>
    /\ out.ret.ok
    /\ out.ret.pos = 4

\* a WHERE condition parsed to its end
C29_WhereWitness ==
    /\ pc = "parse"
    /\ out.op = "where"
    /\ args.tokens = <<"a", "=", "a">>
    /\ out.ret.ok
    /\ out.ret.pos = 3

======================================================================
